---- MODULE Spec2Model ----
(***************************************************************************)
(* SafeMonk burn-after-read store: notes, whole files, download tokens and *)
(* the passphrase reveal flows of the browser client.                      *)
(*                                                                         *)
(* The relational store is PostgreSQL under READ COMMITTED: a statement    *)
(* evaluates its WHERE clause on its snapshot, a SELECT ... FOR UPDATE     *)
(* then waits for the row lock and re-evaluates the WHERE clause on the    *)
(* latest committed version of the row before it returns the row.          *)
(* NOW() is the start time of the transaction.                             *)
(***************************************************************************)
EXTENDS Integers, FiniteSets, Sequences, TLC

\* ---------------------------------------------------------------- bounds
MaxTime == 1
MaxViews == 2
MaxCallers == 2
MaxTokens == 2

\* ------------------------------------------------------------- universes
Callers == 1..MaxCallers
NoteIds == {"n1"}
FileIds == {"f1"}
OtherFileId == "f0"
ExpiresInChoices == {0, 1}
BadId == "not-a-uuid"
Passphrases == {"correct horse", "wrong"}
Salts == {"s1", "s2"}
Null == "null"
NoOne == 0
NoHash == <<"null">>

\* PBKDF2-HMAC-SHA-256 over (passphrase, salt): deterministic, and two
\* different inputs give different outputs.
createPassphraseValidationHash(passphrase, salt) == <<"pbkdf2", passphrase, salt>>

Hashes == {createPassphraseValidationHash(p, s) : p \in Passphrases, s \in Salts}

VARIABLES
  now,            \* the clock the store and the handlers read
  notes,          \* table notes: a function from the ids of its rows to the rows
  noteUsed,       \* ids gen_random_uuid() has handed out
  noteLock,       \* row locks of notes: id -> the caller holding it
  nreq,           \* POST /api/notes/[id]/fetch requests in flight, by caller
  initial_views,  \* history: the views a note was created with
  served,         \* history: 200 responses of /fetch, by note
  probe           \* history: the last answer of note create / meta / validate-passphrase

VARIABLES
  files,          \* table files: a function from the ids of its rows to the rows
  fileUsed,       \* ids gen_random_uuid() has handed out
  blobs,          \* bucket 'secrets': a function from the paths that hold an object to its bytes
  tokens,         \* table download_tokens, keyed by the token string
  minted,         \* how many tokens generate_download_token has drawn
  dreq,           \* POST /api/files/[id]/download requests in flight, by caller
  delivered,      \* history: 200 responses of /download that carried the bytes, by file
  tokenServed     \* history: the tokens that authorised such a response

VARIABLES
  flow            \* the browser running revealNoteWithPassphrase / revealFileWithPassphrase

VARIABLES
  rate_limits,    \* table rate_limits: for each ip (key rate_limit:<ip>) its rows, oldest first
  rreq            \* the rateLimit call of the request being answered, and the answer

VARIABLES
  wreq            \* the POST /api/files/upload request being worked on, or its answer

VARIABLES
  ireq            \* the last POST /api/files/init-chunked request and its answer

VARIABLES
  up              \* the browser running encryptAndUploadInChunks

VARIABLES
  ureq            \* POST /api/files/chunk requests in flight, by caller

VARIABLES
  mreq            \* the GET /api/files/[id]/meta request being worked on, or its answer

VARIABLES
  mw              \* the last request seen by middleware and what it returned

VARIABLES
  gcm             \* a file encrypted in chunks, and the last decryptChunkedFile call on it

VARIABLES
  rcall           \* the rateLimit calls in progress, by caller, between their awaits

VARIABLES
  cform           \* the creator form sending a large file: its init request and a chunk

VARIABLES
  answer,         \* history: the last answer of GET /api/files/chunk or POST /finalize
  finalized       \* history: the files finalize_chunked_download has deleted

noteVars == <<notes, noteUsed, noteLock, nreq, initial_views, served, probe>>
fileVars == <<files, fileUsed, blobs, tokens, minted, dreq, delivered, tokenServed>>
lateVars == <<mw, gcm, rcall, cform>>
intakeVars == <<ireq, wreq, rate_limits, rreq, lateVars>>
earlyVars == <<now, noteVars, fileVars, flow, answer, finalized, mreq, ureq, up, ireq, wreq,
               rate_limits, rreq>>
handlerVars == <<answer, finalized, mreq, ureq, up, intakeVars>>
vars == <<now, noteVars, fileVars, flow, handlerVars>>
outsideNotes == <<fileVars, flow, handlerVars>>
outsideFiles == <<noteVars, flow, handlerVars>>

\* --------------------------------------------------------------- notes
IdleReq == [pc |-> "idle", id |-> Null, txNow |-> 0, snapViews |-> -1, status |-> 0]
NoProbe == [op |-> "none", status |-> 0, valid |-> FALSE]

\* POST /api/notes: views must be between 1 and 100.
MaxViewsAllowed == 100
ViewsRejected(views) == views < 1 \/ views > MaxViewsAllowed

\* const limitedExpiration = Math.min(expiresInSeconds, maxExpiration)
MaxExpiration == 60 * 24 * 3600
LimitedExpiration(expiresInSeconds) ==
  IF expiresInSeconds < MaxExpiration THEN expiresInSeconds ELSE MaxExpiration

\* POST /api/notes. Link-with-key mode posts no passphrase fields; passphrase
\* mode posts the hash of the passphrase under the validation salt and the
\* two salts.
NoteCreate(id, views, expiresIn, passphrase, vsalt, psalt) ==
  /\ id \notin noteUsed
  /\ ~ViewsRejected(views)
  /\ notes' = notes @@ (id :>
        [views_left |-> views,
         expires_at |-> now + LimitedExpiration(expiresIn),
         passphrase_hash |-> IF passphrase = Null THEN NoHash
                             ELSE createPassphraseValidationHash(passphrase, vsalt),
         validation_salt_b64u |-> IF passphrase = Null THEN Null ELSE vsalt,
         pass_salt_b64u |-> IF passphrase = Null THEN Null ELSE psalt])
  /\ noteUsed' = noteUsed \cup {id}
  /\ initial_views' = [initial_views EXCEPT ![id] = views]
  /\ UNCHANGED <<now, noteLock, nreq, served, probe>>
  /\ UNCHANGED outsideNotes

\* What a client can send as expiresInSeconds and as views; a value that
\* is not a number makes Math.min answer NaN.
CreateExpiresIn == {0 - MaxExpiration, -1, 0, 1, MaxExpiration, MaxExpiration + 1}
CreateViews == {0, 1, MaxViews, MaxViewsAllowed, MaxViewsAllowed + 1}

\* The status POST /api/notes answers with: new Date(NaN).toISOString()
\* throws, which the handler's catch turns into 500.
NotePostStatus(complete, views, numeric, admitted, dbError) ==
  IF ~admitted THEN 429
  ELSE IF ~complete THEN 400
  ELSE IF ~numeric THEN 500
  ELSE IF ViewsRejected(views) THEN 400
  ELSE IF dbError THEN 500
  ELSE 200

\* POST /api/notes, the whole handler, for any body a client can send: the
\* row is inserted with expires_at = Date.now() + limitedExpiration and the
\* schema's created_at DEFAULT NOW().
NotePost(id, complete, views, numeric, expiresInSeconds, passphrase, admitted, dbError) ==
  LET status == NotePostStatus(complete, views, numeric, admitted, dbError)
  IN
  /\ id \notin noteUsed
  /\ probe' = [op |-> "create", status |-> status, valid |-> status = 200]
  /\ IF status = 200
       THEN /\ notes' = notes @@ (id :>
                  [views_left |-> views,
                   created_at |-> now,
                   expires_at |-> now + LimitedExpiration(expiresInSeconds),
                   passphrase_hash |-> IF passphrase = Null THEN NoHash
                                       ELSE createPassphraseValidationHash(passphrase, "s1"),
                   validation_salt_b64u |-> IF passphrase = Null THEN Null ELSE "s1",
                   pass_salt_b64u |-> IF passphrase = Null THEN Null ELSE "s2"])
            /\ noteUsed' = noteUsed \cup {id}
            /\ initial_views' = [initial_views EXCEPT ![id] = views]
       ELSE UNCHANGED <<notes, noteUsed, initial_views>>
  /\ UNCHANGED <<now, noteLock, nreq, served>>
  /\ UNCHANGED outsideNotes

NoteCreateRejected(views) ==
  /\ ViewsRejected(views)
  /\ probe' = [op |-> "create", status |-> 400, valid |-> FALSE]
  /\ UNCHANGED <<now, notes, noteUsed, noteLock, nreq, initial_views, served>>
  /\ UNCHANGED outsideNotes

\* Variant: the WHERE clause without its views_left > 0 conjunct.
BurnWhere_NoViewsCheck(tbl, id, t) ==
  /\ id \in DOMAIN tbl
  /\ t <= tbl[id].expires_at

\* WHERE id = target_id AND NOW() <= expires_at AND views_left > 0
BurnWhere(tbl, id, t) ==
  /\ id \in DOMAIN tbl
  /\ t <= tbl[id].expires_at
  /\ tbl[id].views_left > 0

\* Variant: no FOR UPDATE, the row found by the snapshot is used as it is.
BurnRecheck_Skipped(tbl, id, t) == id \in DOMAIN tbl

\* FOR UPDATE: once the lock is granted the WHERE clause is evaluated again
\* on the latest version of the row.
BurnRecheck(tbl, id, t) == BurnWhere(tbl, id, t)

\* POST /api/notes/[id]/fetch up to the start of the burn_and_fetch_note
\* statement: rate limit, UUID format, then the statement's snapshot.
\* Requests are numbered in their order of arrival.
FetchStart(c, id, admitted, dbError) ==
  /\ nreq[c].pc = "idle"
  /\ \A d \in Callers : d < c => nreq[d].pc # "idle"
  /\ IF ~admitted
       THEN nreq' = [nreq EXCEPT ![c] = [IdleReq EXCEPT !.pc = "done", !.id = id, !.status = 429]]
     ELSE IF id = BadId
       THEN nreq' = [nreq EXCEPT ![c] = [IdleReq EXCEPT !.pc = "done", !.id = id, !.status = 400]]
     ELSE IF dbError
       THEN nreq' = [nreq EXCEPT ![c] = [IdleReq EXCEPT !.pc = "done", !.id = id, !.status = 500]]
     ELSE IF BurnWhere(notes, id, now)
       THEN nreq' = [nreq EXCEPT ![c] =
              [pc |-> "wait", id |-> id, txNow |-> now,
               snapViews |-> notes[id].views_left, status |-> 0]]
       ELSE nreq' = [nreq EXCEPT ![c] =
              [pc |-> "done", id |-> id, txNow |-> 0,
               snapViews |-> IF id \in DOMAIN notes THEN notes[id].views_left ELSE -1,
               status |-> 404]]
  /\ UNCHANGED <<now, notes, noteUsed, noteLock, initial_views, served, probe>>
  /\ UNCHANGED outsideNotes

\* The row lock is granted (no other transaction holds it); the row is
\* returned to the CTE only if it still passes the WHERE clause.
FetchLock(c) ==
  LET id == nreq[c].id IN
  /\ nreq[c].pc = "wait"
  /\ noteLock[id] = NoOne
  /\ IF BurnRecheck(notes, id, nreq[c].txNow)
       THEN /\ noteLock' = [noteLock EXCEPT ![id] = c]
            /\ nreq' = [nreq EXCEPT ![c].pc = "locked"]
       ELSE /\ nreq' = [nreq EXCEPT ![c].pc = "done", ![c].txNow = 0, ![c].status = 404]
            /\ UNCHANGED noteLock
  /\ UNCHANGED <<now, notes, noteUsed, initial_views, served, probe>>
  /\ UNCHANGED outsideNotes

\* Variant: the row is returned but SET views_left = tgt.views_left.
FetchUpdate_NoDecrement(c) ==
  LET id == nreq[c].id IN
  /\ nreq[c].pc = "locked"
  /\ noteLock' = [noteLock EXCEPT ![id] = NoOne]
  /\ nreq' = [nreq EXCEPT ![c].pc = "done", ![c].txNow = 0, ![c].status = 200]
  /\ served' = [served EXCEPT ![id] = @ + 1]
  /\ UNCHANGED <<now, notes, noteUsed, initial_views, probe>>
  /\ UNCHANGED outsideNotes

\* UPDATE notes n SET views_left = tgt.views_left - 1 ... RETURNING, the
\* commit, and the handler's 200 {ciphertext, iv}.
FetchUpdate(c) ==
  LET id == nreq[c].id IN
  /\ nreq[c].pc = "locked"
  /\ notes' = [notes EXCEPT ![id].views_left = notes[id].views_left - 1]
  /\ noteLock' = [noteLock EXCEPT ![id] = NoOne]
  /\ nreq' = [nreq EXCEPT ![c].pc = "done", ![c].txNow = 0, ![c].status = 200]
  /\ served' = [served EXCEPT ![id] = @ + 1]
  /\ UNCHANGED <<now, noteUsed, initial_views, probe>>
  /\ UNCHANGED outsideNotes

\* get_note_complete_meta
NoteMetaWhere(tbl, id, t) ==
  /\ id \in DOMAIN tbl
  /\ t <= tbl[id].expires_at
  /\ tbl[id].views_left > 0
  /\ tbl[id].passphrase_hash # NoHash

\* GET /api/notes/[id]/meta
NoteMeta(id, admitted) ==
  /\ probe' = [op |-> "meta", valid |-> FALSE,
               status |-> IF ~admitted THEN 429
                          ELSE IF id = BadId THEN 400
                          ELSE IF NoteMetaWhere(notes, id, now) THEN 200 ELSE 404]
  /\ UNCHANGED <<now, notes, noteUsed, noteLock, nreq, initial_views, served>>
  /\ UNCHANGED outsideNotes

\* validate_note_passphrase
validate_note_passphrase(tbl, id, provided_hash, t) ==
  /\ NoteMetaWhere(tbl, id, t)
  /\ tbl[id].passphrase_hash = provided_hash

\* Variant: the behaviour before validation was separated from the burn, a
\* passphrase check that costs a view.
NoteValidate_Burning(id, provided_hash, admitted) ==
  /\ probe' = [op |-> "validate", status |-> 200,
               valid |-> validate_note_passphrase(notes, id, provided_hash, now)]
  /\ notes' = IF BurnWhere(notes, id, now)
                THEN [notes EXCEPT ![id].views_left = @ - 1] ELSE notes
  /\ UNCHANGED <<now, noteUsed, noteLock, nreq, initial_views, served>>
  /\ UNCHANGED outsideNotes

\* POST /api/notes/[id]/validate-passphrase
NoteValidate(id, provided_hash, admitted) ==
  /\ probe' = [op |-> "validate",
               status |-> IF ~admitted THEN 429
                          ELSE IF id = BadId THEN 400
                          ELSE 200,
               valid |-> /\ admitted
                         /\ id # BadId
                         /\ validate_note_passphrase(notes, id, provided_hash, now)]
  /\ notes' = notes
  /\ UNCHANGED <<now, noteUsed, noteLock, nreq, initial_views, served>>
  /\ UNCHANGED outsideNotes

\* cleanup_expired_notes: DELETE FROM notes WHERE expires_at < NOW(). The
\* DELETE waits for the row locks of the rows it removes.
\* Variant: a sweep that also takes the rows expiring at this very instant.
NoteExpired_Inclusive(tbl, id, t) == id \in DOMAIN tbl /\ tbl[id].expires_at <= t
NoteExpired(tbl, id, t) == id \in DOMAIN tbl /\ tbl[id].expires_at < t

cleanup_expired_notes ==
  /\ \E id \in NoteIds : NoteExpired(notes, id, now)
  /\ \A id \in NoteIds : NoteExpired(notes, id, now) => noteLock[id] = NoOne
  /\ notes' = [id \in {i \in DOMAIN notes : ~NoteExpired(notes, i, now)} |-> notes[id]]
  /\ UNCHANGED <<now, noteUsed, noteLock, nreq, initial_views, served, probe>>
  /\ UNCHANGED outsideNotes

Advance(limit) ==
  /\ now < limit
  /\ now' = now + 1
  /\ UNCHANGED noteVars
  /\ UNCHANGED fileVars
  /\ UNCHANGED flow
  /\ UNCHANGED handlerVars

Tick == Advance(MaxTime)

InitNotes ==
  /\ notes = <<>>
  /\ noteUsed = {}
  /\ noteLock = [id \in NoteIds |-> NoOne]
  /\ nreq = [c \in Callers |-> IdleReq]
  /\ initial_views = [id \in NoteIds |-> 0]
  /\ served = [id \in NoteIds |-> 0]
  /\ probe = NoProbe


\* --------------------------------------------------- files and tokens
\* Token lifetimes, in ticks of the clock: one tick is 5 minutes, so
\* INTERVAL '5 minutes' is 1 tick and INTERVAL '10 minutes' is 2.
SingleUseTTL == 1
MultiUseTTL == 2
NoToken == 0
Tokens == 1..MaxTokens

\* Absolute expiry instants a client may send with an upload.
FileExpiryChoices == {0, 1}

\* A /download request. "how" is the place where the token was last looked
\* at: "none", "snapshot" (refused by the SELECT's snapshot), "recheck"
\* (refused after the lock wait) or "consumed" (used = TRUE committed).
\* "after" tells whether, when the request arrived, a /download of the same
\* file had already answered 200, and whether that file's row or blob was
\* then gone ("burned") or both still there ("kept").
IdleDl == [pc |-> "idle", id |-> Null, token |-> NoToken, txNow |-> 0, path |-> Null,
           how |-> "none", after |-> "no", status |-> 0]

\* The answer to request r. Of the request itself, the answer keeps the token,
\* and the file only when the bytes were sent.
Answered(r, how, status) ==
  [IdleDl EXCEPT !.pc = "done", !.token = r.token, !.after = r.after, !.how = how,
                 !.status = status, !.id = IF status = 200 THEN r.id ELSE Null]

\* const storagePath = `${crypto.randomUUID()}.bin`
StoragePath(id) == <<"bin", id>>

\* What a client sends as bytes of an object and as iv_base_b64u; the empty
\* string is the placeholder init-chunked inserts.
Bodies == {"b1", "b2"}
IvChoices == {"iv1", "iv2"}
EmptyIv == ""

\* storage.remove(paths)
RemoveObjects(bucket, paths) == [p \in DOMAIN bucket \ paths |-> bucket[p]]

\* POST /api/files/upload: the blob is written under a fresh path, then the
\* row is inserted with total_chunks = 1 and the client's expires_at.
FileUpload(id, expires_at, passphrase, vsalt, psalt) ==
  /\ id \notin fileUsed
  /\ blobs' = blobs @@ (StoragePath(id) :> "b1")
  /\ files' = files @@ (id :>
        [total_chunks |-> 1,
         storage_path |-> StoragePath(id),
         iv_base_b64u |-> "iv1",
         expires_at |-> expires_at,
         passphrase_hash |-> IF passphrase = Null THEN NoHash
                             ELSE createPassphraseValidationHash(passphrase, vsalt),
         validation_salt_b64u |-> IF passphrase = Null THEN Null ELSE vsalt,
         pass_salt_b64u |-> IF passphrase = Null THEN Null ELSE psalt])
  /\ fileUsed' = fileUsed \cup {id}
  /\ UNCHANGED <<now, tokens, minted, dreq, delivered, tokenServed>>
  /\ UNCHANGED outsideFiles

\* .eq('id', id).gt('expires_at', new Date().toISOString())
FileMetaWhere(tbl, id, t) == id \in DOMAIN tbl /\ tbl[id].expires_at > t

\* generate_download_token: WHERE id = target_file_id AND NOW() <= expires_at
GenerateWhere(tbl, id, t) == id \in DOMAIN tbl /\ t <= tbl[id].expires_at

\* generate_download_token: the row it inserts.
NewToken(file_chunks, id, t) ==
  [file_id |-> id,
   expires_at |-> t + (IF file_chunks > 1 THEN MultiUseTTL ELSE SingleUseTTL),
   used |-> FALSE,
   is_multi_use |-> file_chunks > 1]

\* generate_download_token: INSERT INTO download_tokens.
generate_download_token(id) ==
  /\ minted' = minted + 1
  /\ tokens' = tokens @@ ((minted + 1) :> NewToken(files[id].total_chunks, id, now))

\* GET /api/files/[id]/meta: the select on files, then generate_download_token.
FileMeta(id) ==
  /\ FileMetaWhere(files, id, now)
  /\ GenerateWhere(files, id, now)
  /\ minted < MaxTokens
  /\ generate_download_token(id)
  /\ UNCHANGED <<now, files, fileUsed, blobs, dreq, delivered, tokenServed>>
  /\ UNCHANGED outsideFiles

\* Variant: the WHERE clause without its used = FALSE conjunct.
ConsumeWhere_UsedAllowed(tbl, tok, t) ==
  /\ tok \in DOMAIN tbl
  /\ t <= tbl[tok].expires_at

\* consume_download_token: WHERE dt.token = target_token AND dt.used = FALSE
\* AND NOW() <= dt.expires_at
ConsumeWhere(tbl, tok, t) ==
  /\ tok \in DOMAIN tbl
  /\ tbl[tok].used = FALSE
  /\ t <= tbl[tok].expires_at

\* Variant: no FOR UPDATE, the token row found by the snapshot is used as it is.
ConsumeRecheck_Skipped(tbl, tok, t) == tok \in DOMAIN tbl

\* FOR UPDATE: once the lock is granted the WHERE clause is evaluated again
\* on the latest version of the token row.
ConsumeRecheck(tbl, tok, t) == ConsumeWhere(tbl, tok, t)

\* POST /api/files/[id]/download up to the start of consume_download_token's
\* SELECT ... FOR UPDATE: rate limit, the token in the body, the snapshot.
\* Requests are numbered in their order of arrival.
DlStart(c, id, tok, admitted) ==
  LET served200 == \E d \in Callers :
                      dreq[d].pc = "done" /\ dreq[d].status = 200 /\ dreq[d].id = id
      gone == id \notin DOMAIN files \/ StoragePath(id) \notin DOMAIN blobs
      after == IF ~served200 THEN "no" ELSE IF gone THEN "burned" ELSE "kept"
      base == [IdleDl EXCEPT !.id = id, !.token = tok, !.after = after]
  IN
  /\ dreq[c].pc = "idle"
  /\ \A d \in Callers : d < c => dreq[d].pc # "idle"
  /\ IF ~admitted
       THEN dreq' = [dreq EXCEPT ![c] = [IdleDl EXCEPT !.pc = "done", !.status = 429]]
     ELSE IF tok = NoToken
       THEN dreq' = [dreq EXCEPT ![c] = [IdleDl EXCEPT !.pc = "done", !.status = 400]]
     ELSE IF ConsumeWhere(tokens, tok, now)
       THEN dreq' = [dreq EXCEPT ![c] = [base EXCEPT !.pc = "wait", !.txNow = now]]
       ELSE dreq' = [dreq EXCEPT ![c] = Answered(base, "snapshot", 401)]
  /\ UNCHANGED <<now, files, fileUsed, blobs, tokens, minted, delivered, tokenServed>>
  /\ UNCHANGED outsideFiles

\* consume_download_token: SELECT f.id, to_jsonb(f) FROM files f
\* WHERE f.id = token_record.file_id AND NOW() <= f.expires_at
ConsumeFileWhere(tbl, id, t) == id \in DOMAIN tbl /\ t <= tbl[id].expires_at

\* consume_download_token from the moment the token's row lock is granted to
\* its commit, and the handler up to the storage download. The lock is held
\* for this step only, so no other transaction sees the row in between.
\* NOT FOUND after the recheck: no row, 401. A multi-use token raises (the
\* transaction rolls back, 401). Otherwise used = TRUE is committed, and the
\* handler answers 401 when the function returned no file or a file other
\* than the one in the URL, 400 when the file is chunked.
DlConsume(c) ==
  LET tok == dreq[c].token
      fid == tokens[tok].file_id
  IN
  /\ dreq[c].pc = "wait"
  /\ IF ~ConsumeRecheck(tokens, tok, dreq[c].txNow)
       THEN /\ dreq' = [dreq EXCEPT ![c] = Answered(dreq[c], "recheck", 401)]
            /\ UNCHANGED tokens
     ELSE IF tokens[tok].is_multi_use
       THEN /\ dreq' = [dreq EXCEPT ![c] = Answered(dreq[c], "raised", 401)]
            /\ UNCHANGED tokens
       ELSE /\ tokens' = [tokens EXCEPT ![tok].used = TRUE]
            /\ IF ~ConsumeFileWhere(files, fid, dreq[c].txNow) \/ fid # dreq[c].id
                 THEN dreq' = [dreq EXCEPT ![c] = Answered(dreq[c], "consumed", 401)]
               ELSE IF files[fid].total_chunks # 1
                 THEN dreq' = [dreq EXCEPT ![c] = Answered(dreq[c], "consumed", 400)]
                 ELSE dreq' = [dreq EXCEPT ![c].pc = "read", ![c].txNow = 0,
                                           ![c].how = "consumed",
                                           ![c].path = files[fid].storage_path]
  /\ UNCHANGED <<now, files, fileUsed, blobs, minted, delivered, tokenServed>>
  /\ UNCHANGED outsideFiles

\* Variant: a download that finds the bytes whether or not the object exists.
DlRead_NoBlobCheck(c, storageError) ==
  /\ dreq[c].pc = "read"
  /\ IF storageError
       THEN dreq' = [dreq EXCEPT ![c] = Answered(dreq[c], "consumed", 404)]
       ELSE dreq' = [dreq EXCEPT ![c].pc = "remove"]
  /\ UNCHANGED <<now, files, fileUsed, blobs, tokens, minted, delivered, tokenServed>>
  /\ UNCHANGED outsideFiles

\* supabaseAdmin.storage.from('secrets').download(storagePath)
DlRead(c, storageError) ==
  /\ dreq[c].pc = "read"
  /\ IF storageError \/ dreq[c].path \notin DOMAIN blobs
       THEN dreq' = [dreq EXCEPT ![c] = Answered(dreq[c], "consumed", 404)]
       ELSE dreq' = [dreq EXCEPT ![c].pc = "remove"]
  /\ UNCHANGED <<now, files, fileUsed, blobs, tokens, minted, delivered, tokenServed>>
  /\ UNCHANGED outsideFiles

\* supabaseAdmin.storage.from('secrets').remove([storagePath]); an error is
\* logged and the handler goes on.
DlRemove(c, storageDeleteError) ==
  /\ dreq[c].pc = "remove"
  /\ blobs' = IF storageDeleteError THEN blobs ELSE RemoveObjects(blobs, {dreq[c].path})
  /\ dreq' = [dreq EXCEPT ![c].pc = "delete"]
  /\ UNCHANGED <<now, files, fileUsed, tokens, minted, delivered, tokenServed>>
  /\ UNCHANGED outsideFiles

\* DELETE FROM files WHERE id = ...; download_tokens.file_id REFERENCES
\* files(id) ON DELETE CASCADE.
DeleteFiles(ids) ==
  /\ files' = [f \in DOMAIN files \ ids |-> files[f]]
  /\ tokens' = [t \in {u \in DOMAIN tokens : tokens[u].file_id \notin ids} |-> tokens[t]]

\* supabaseAdmin.from('files').delete().eq('id', id); an error is logged and
\* the handler goes on. Then the response with the encrypted blob.
DlDelete(c, dbDeleteError) ==
  /\ dreq[c].pc = "delete"
  /\ IF dbDeleteError
       THEN UNCHANGED <<files, tokens>>
       ELSE DeleteFiles({dreq[c].id})
  /\ dreq' = [dreq EXCEPT ![c] = Answered(dreq[c], "consumed", 200)]
  /\ delivered' = [delivered EXCEPT ![dreq[c].id] = @ + 1]
  /\ tokenServed' = tokenServed \cup {dreq[c].token}
  /\ UNCHANGED <<now, fileUsed, blobs, minted>>
  /\ UNCHANGED outsideFiles

\* cleanup_expired_files: DELETE FROM files WHERE expires_at < NOW()
FileExpired(tbl, id, t) == id \in DOMAIN tbl /\ tbl[id].expires_at < t

cleanup_expired_files ==
  /\ \E id \in DOMAIN files : FileExpired(files, id, now)
  /\ DeleteFiles({id \in DOMAIN files : FileExpired(files, id, now)})
  /\ UNCHANGED <<now, fileUsed, blobs, minted, dreq, delivered, tokenServed>>
  /\ UNCHANGED outsideFiles

\* cleanup_download_tokens: DELETE FROM download_tokens
\* WHERE expires_at < NOW() OR used = TRUE
TokenSwept(tbl, tok, t) == tok \in DOMAIN tbl /\ (tbl[tok].expires_at < t \/ tbl[tok].used = TRUE)

cleanup_download_tokens ==
  /\ \E t \in Tokens : TokenSwept(tokens, t, now)
  /\ tokens' = [t \in {u \in DOMAIN tokens : ~TokenSwept(tokens, u, now)} |-> tokens[t]]
  /\ UNCHANGED <<now, files, fileUsed, blobs, minted, dreq, delivered, tokenServed>>
  /\ UNCHANGED outsideFiles

\* ------------------------------------------------------- chunked files
\* total_chunks a client may announce to init-chunked.
ChunkCounts == {2}

\* const path = `${fileId}/part-${String(index).padStart(5, '0')}`
ChunkPath(id, index) == <<"part", id, index>>
ChunkPaths(id, total_chunks) == {ChunkPath(id, i) : i \in 0..(total_chunks - 1)}

\* POST /api/files/init-chunked: the row is inserted without any blob, then
\* storage_path is set to the row's id.
FileInitChunked(id, total_chunks, expires_at, passphrase, vsalt, psalt) ==
  /\ id \notin fileUsed
  /\ files' = files @@ (id :>
        [total_chunks |-> total_chunks,
         storage_path |-> <<"dir", id>>,
         iv_base_b64u |-> EmptyIv,
         expires_at |-> expires_at,
         passphrase_hash |-> IF passphrase = Null THEN NoHash
                             ELSE createPassphraseValidationHash(passphrase, vsalt),
         validation_salt_b64u |-> IF passphrase = Null THEN Null ELSE vsalt,
         pass_salt_b64u |-> IF passphrase = Null THEN Null ELSE psalt])
  /\ fileUsed' = fileUsed \cup {id}
  /\ UNCHANGED <<now, blobs, tokens, minted, dreq, delivered, tokenServed>>
  /\ UNCHANGED outsideFiles

\* POST /api/files/chunk as the uploading browser sends it, when it answers
\* ok and no other request comes in between: the file exists and has not
\* expired, the index is in range and total is the row's total_chunks; with
\* chunk 0 the base IV is stored, and the object is written unless it is
\* there already.
ChunkUpload(id, index, total) ==
  /\ id \in DOMAIN files
  /\ ~(now > files[id].expires_at)
  /\ ~(index < 0 \/ index >= files[id].total_chunks)
  /\ total = files[id].total_chunks
  /\ files' = IF index = 0 THEN [files EXCEPT ![id].iv_base_b64u = "iv1"] ELSE files
  /\ blobs' = IF ChunkPath(id, index) \in DOMAIN blobs THEN blobs
               ELSE blobs @@ (ChunkPath(id, index) :> "b1")
  /\ UNCHANGED <<now, fileUsed, tokens, minted, dreq, delivered, tokenServed>>
  /\ UNCHANGED outsideFiles

\* Variant: a validation that does not look at the file's expiry.
validate_download_token_NoFileExpiry(tok, id, t) ==
  /\ tok \in DOMAIN tokens
  /\ tokens[tok].file_id = id
  /\ id \in DOMAIN files
  /\ tokens[tok].used = FALSE
  /\ t <= tokens[tok].expires_at

\* validate_download_token
validate_download_token(tok, id, t) ==
  /\ tok \in DOMAIN tokens
  /\ tokens[tok].file_id = id
  /\ id \in DOMAIN files
  /\ tokens[tok].used = FALSE
  /\ t <= tokens[tok].expires_at
  /\ t <= files[id].expires_at

\* GET /api/files/chunk: the status it answers; it writes nothing.
ChunkGetStatus(id, index, tok, downloadError) ==
  IF tok = NoToken THEN 400
  ELSE IF ~validate_download_token(tok, id, now) THEN 401
  ELSE IF id \notin DOMAIN files THEN 404
  ELSE IF index < 0 \/ index >= files[id].total_chunks THEN 400
  ELSE IF downloadError \/ ChunkPath(id, index) \notin DOMAIN blobs THEN 404
  ELSE 200

\* Variant: a finalize that takes a token of any file.
FinalizeWhere_AnyFile(tok, id, t) ==
  /\ tok \in DOMAIN tokens
  /\ id \in DOMAIN files
  /\ tokens[tok].used = FALSE
  /\ tokens[tok].is_multi_use = TRUE
  /\ t <= tokens[tok].expires_at
  /\ t <= files[id].expires_at

\* finalize_chunked_download: the join its first SELECT makes.
FinalizeWhere(tok, id, t) ==
  /\ validate_download_token(tok, id, t)
  /\ tokens[tok].is_multi_use = TRUE

\* Variant: a finalize that marks its token used and deletes nothing.
FinalizeEffect_MarkUsedOnly(id, tok, storageError) ==
  IF id \in DOMAIN files /\ FinalizeWhere(tok, id, now)
    THEN /\ tokens' = [tokens EXCEPT ![tok].used = TRUE]
         /\ UNCHANGED <<files, blobs>>
    ELSE UNCHANGED <<files, tokens, blobs>>

\* POST /api/files/[id]/finalize: what it does to files, download_tokens and
\* the bucket. It answers success in every case: file not found, function
\* returned success = FALSE, or the row and its tokens deleted and the chunks
\* removed (a storage error there is ignored).
FinalizeEffect(id, tok, storageError) ==
  IF id \in DOMAIN files /\ FinalizeWhere(tok, id, now)
    THEN /\ DeleteFiles({id})
         /\ blobs' = IF storageError THEN blobs
                     ELSE RemoveObjects(blobs, ChunkPaths(id, files[id].total_chunks))
    ELSE UNCHANGED <<files, tokens, blobs>>

\* validate_file_passphrase
validate_file_passphrase(tbl, id, provided_hash, t) ==
  /\ id \in DOMAIN tbl
  /\ t <= tbl[id].expires_at
  /\ tbl[id].passphrase_hash # NoHash
  /\ tbl[id].passphrase_hash = provided_hash

InitFiles ==
  /\ files = <<>>
  /\ fileUsed = {}
  /\ blobs = <<>>
  /\ tokens = <<>>
  /\ minted = 0
  /\ dreq = [c \in Callers |-> IdleDl]
  /\ delivered = [id \in FileIds \cup {OtherFileId} |-> 0]
  /\ tokenServed = {}

\* ---------------------------------------------- passphrase reveal flows
\* The browser is the caller whose requests arrive first.
Client == 1

\* The run of revealNoteWithPassphrase or revealFileWithPassphrase: where it
\* stands, what validatePassphrase learnt ("valid"), what the metadata
\* answers gave it, and "sent": the /fetch, /download, chunk-download and
\* /finalize requests it has issued.
IdleFlow == [pc |-> "idle", kind |-> "none", id |-> Null, passphrase |-> Null,
             salt |-> Null, valid |-> "unknown", token |-> NoToken, total_chunks |-> 0,
             index |-> 0, sent |-> {}, outcome |-> "none", authFailed |-> FALSE]

\* throw new Error(message)
Throw(f, message) == [f EXCEPT !.pc = "thrown", !.outcome = message]
\* crypto.subtle.decrypt rejected (the GCM tag did not verify), and the
\* catch around it threw message.
ThrowAuth(f, message) == [Throw(f, message) EXCEPT !.authFailed = TRUE]

\* RevealFlow.handleReveal, the catch block: the message shown for a
\* thrown error. Includes(message, word) is err.message.includes(word),
\* tabulated for the messages the reveal functions throw.
Keywords ==
  [m \in {"INVALID_PASSPHRASE", "does not use passphrase mode", "Validation request failed",
          "This note does not use passphrase mode", "This file does not use passphrase mode",
          "Decryption failed unexpectedly", "File decryption failed unexpectedly"} |-> {}]
  @@ [m \in {"not found or expired", "Note not found or expired",
             "File not found or expired"} |-> {"not found", "expired"}]
  @@ [m \in {"Note unavailable, expired, or already viewed"} |->
        {"unavailable", "expired", "viewed"}]
  @@ [m \in {"File unavailable, expired, or already accessed"} |->
        {"unavailable", "expired", "accessed"}]
Includes(message, word) == word \in Keywords[message]

\* Messages are sequences of the pieces the template strings are made of.
IncorrectPassphrase == <<"Incorrect passphrase. Please check your passphrase and try again.">>
ErrorMessage(type, message) ==
  IF message = "INVALID_PASSPHRASE" THEN IncorrectPassphrase
  ELSE IF \E w \in {"unavailable", "expired", "viewed", "accessed"} : Includes(message, w)
    THEN <<"This ", type, " has expired, been ",
           IF type = "note" THEN "viewed" ELSE "accessed",
           " already, or is no longer available.">>
  ELSE IF Includes(message, "not found")
    THEN <<IF type = "note" THEN "Note" ELSE "File",
           " not found. The link may be invalid or the ", type, " may have been deleted.">>
  ELSE IF Includes(message, "Invalid or expired download token")
    THEN <<"Download session expired. Please refresh the page and try again.">>
  ELSE <<message>>

\* setState('passphrase') lets the user type again; the flows here are
\* passphrase-mode flows (isPassphraseMode).
StateAfterError(message) ==
  IF message = "INVALID_PASSPHRASE" THEN "passphrase" ELSE "error"

\* The user opens a link of the given kind and types a passphrase.
RevealStart(kind, id, passphrase) ==
  /\ flow.pc = "idle"
  /\ flow' = [IdleFlow EXCEPT !.pc = "validate_meta", !.kind = kind, !.id = id,
                              !.passphrase = passphrase]
  /\ UNCHANGED <<now, handlerVars, noteVars, fileVars>>

\* validatePassphrase(id, passphrase, 'note'): GET /api/notes/[id]/meta and
\* what is made of the answer.
ValidatePassphraseMetaNote(admitted) ==
  /\ flow.pc = "validate_meta" /\ flow.kind = "note"
  /\ flow' = IF ~(admitted /\ NoteMetaWhere(notes, flow.id, now))
               THEN Throw(flow, "not found or expired")
             ELSE IF notes[flow.id].validation_salt_b64u = Null
               THEN Throw(flow, "does not use passphrase mode")
               ELSE [flow EXCEPT !.pc = "validate_post",
                                 !.salt = notes[flow.id].validation_salt_b64u]
  /\ UNCHANGED <<now, handlerVars, noteVars, fileVars>>

\* validatePassphrase(id, passphrase, 'file'): GET /api/files/[id]/meta, which
\* draws a download token, and what is made of the answer.
ValidatePassphraseMetaFile ==
  /\ flow.pc = "validate_meta" /\ flow.kind = "file"
  /\ minted < MaxTokens
  /\ IF ~(FileMetaWhere(files, flow.id, now) /\ GenerateWhere(files, flow.id, now))
       THEN /\ flow' = Throw(flow, "not found or expired")
            /\ UNCHANGED <<tokens, minted>>
       ELSE /\ generate_download_token(flow.id)
            /\ flow' = IF files[flow.id].validation_salt_b64u = Null
                         THEN Throw(flow, "does not use passphrase mode")
                         ELSE [flow EXCEPT !.pc = "validate_post",
                                           !.salt = files[flow.id].validation_salt_b64u]
  /\ UNCHANGED <<now, handlerVars, noteVars, files, fileUsed, blobs, dreq, delivered, tokenServed>>

\* validatePassphrase: the hash of the typed passphrase is posted to
\* validate-passphrase; return valid === true.
ValidatePassphrasePost(admitted) ==
  LET validationHash == createPassphraseValidationHash(flow.passphrase, flow.salt)
      valid == IF flow.kind = "note"
                 THEN validate_note_passphrase(notes, flow.id, validationHash, now)
                 ELSE validate_file_passphrase(files, flow.id, validationHash, now)
  IN
  /\ flow.pc = "validate_post"
  /\ flow' = IF ~admitted THEN Throw(flow, "Validation request failed")
             ELSE [flow EXCEPT !.pc = "check", !.valid = IF valid THEN "yes" ELSE "no"]
  /\ UNCHANGED <<now, handlerVars, noteVars, fileVars>>

\* Variant: a reveal flow that goes on whatever validation answered.
RevealCheckValid_Unchecked ==
  /\ flow.pc = "check"
  /\ flow' = [flow EXCEPT !.pc = "meta"]
  /\ UNCHANGED <<now, handlerVars, noteVars, fileVars>>

\* if (!isValid) { throw new Error('INVALID_PASSPHRASE') }
RevealCheckValid ==
  /\ flow.pc = "check"
  /\ flow' = IF flow.valid # "yes" THEN Throw(flow, "INVALID_PASSPHRASE")
             ELSE [flow EXCEPT !.pc = "meta"]
  /\ UNCHANGED <<now, handlerVars, noteVars, fileVars>>

\* revealNoteWithPassphrase: GET /api/notes/[id]/meta for the key salt.
RevealMetaNote(admitted) ==
  /\ flow.pc = "meta" /\ flow.kind = "note"
  /\ flow' = IF ~(admitted /\ NoteMetaWhere(notes, flow.id, now))
               THEN Throw(flow, "Note not found or expired")
             ELSE IF /\ notes[flow.id].pass_salt_b64u = Null
                     /\ notes[flow.id].validation_salt_b64u = Null
               THEN Throw(flow, "This note does not use passphrase mode")
               ELSE [flow EXCEPT !.pc = "fetch"]
  /\ UNCHANGED <<now, handlerVars, noteVars, fileVars>>

\* revealFileWithPassphrase: GET /api/files/[id]/meta for the salt, the
\* number of chunks and the download token.
RevealMetaFile ==
  /\ flow.pc = "meta" /\ flow.kind = "file"
  /\ minted < MaxTokens
  /\ IF ~(FileMetaWhere(files, flow.id, now) /\ GenerateWhere(files, flow.id, now))
       THEN /\ flow' = Throw(flow, "File not found or expired")
            /\ UNCHANGED <<tokens, minted>>
       ELSE /\ generate_download_token(flow.id)
            /\ flow' = IF /\ files[flow.id].pass_salt_b64u = Null
                          /\ files[flow.id].validation_salt_b64u = Null
                         THEN Throw(flow, "This file does not use passphrase mode")
                         ELSE [flow EXCEPT
                                 !.pc = IF files[flow.id].total_chunks = 1
                                          THEN "download" ELSE "chunks",
                                 !.token = minted + 1,
                                 !.total_chunks = files[flow.id].total_chunks]
  /\ UNCHANGED <<now, handlerVars, noteVars, files, fileUsed, blobs, dreq, delivered, tokenServed>>

\* fetch(`/api/notes/${id}/fetch`, { method: 'POST' })
RevealFetchSend ==
  /\ flow.pc = "fetch"
  /\ flow' = [flow EXCEPT !.pc = "fetching", !.sent = @ \cup {"fetch"}]
  /\ UNCHANGED <<now, handlerVars, noteVars, fileVars>>

\* The /fetch request reaches its handler.
RevealFetchArrives(admitted, dbError) ==
  /\ flow.pc = "fetching"
  /\ FetchStart(Client, flow.id, admitted, dbError)

\* The answer to /fetch: 'Note unavailable, expired, or already viewed', or
\* the ciphertext, which decrypts to the plaintext or fails authentication.
RevealFetchRecv(authFails) ==
  /\ flow.pc = "fetching"
  /\ nreq[Client].pc = "done"
  /\ flow' = IF nreq[Client].status # 200
               THEN Throw(flow, "Note unavailable, expired, or already viewed")
             ELSE IF authFails
               THEN ThrowAuth(flow, "Decryption failed unexpectedly")
               ELSE [flow EXCEPT !.pc = "returned", !.outcome = "plaintext"]
  /\ UNCHANGED <<now, handlerVars, noteVars, fileVars>>

\* fetch(`/api/files/${id}/download`, { method: 'POST', body: { downloadToken } })
RevealDownloadSend ==
  /\ flow.pc = "download"
  /\ flow' = [flow EXCEPT !.pc = "downloading", !.sent = @ \cup {"download"}]
  /\ UNCHANGED <<now, handlerVars, noteVars, fileVars>>

\* The /download request, with the token of the metadata answer, reaches its
\* handler.
RevealDownloadArrives(admitted) ==
  /\ flow.pc = "downloading"
  /\ DlStart(Client, flow.id, flow.token, admitted)

\* The answer to /download: 'File unavailable, expired, or already
\* accessed', or the encrypted blob, which decryptFileWhole decrypts or
\* fails to authenticate.
RevealDownloadRecv(authFails) ==
  /\ flow.pc = "downloading"
  /\ dreq[Client].pc = "done"
  /\ flow' = IF dreq[Client].status # 200
               THEN Throw(flow, "File unavailable, expired, or already accessed")
             ELSE IF authFails
               THEN ThrowAuth(flow, "File decryption failed unexpectedly")
               ELSE [flow EXCEPT !.pc = "returned", !.outcome = "blob"]
  /\ UNCHANGED <<now, handlerVars, noteVars, fileVars>>

\* Variant: a download that goes on to finalize although a chunk failed.
DecryptChunkedFileGet_FinalizeAnyway(downloadError, authFails) ==
  /\ flow.pc = "chunks"
  /\ flow' = [flow EXCEPT !.sent = @ \cup {"chunk"}, !.pc = "finalize"]
  /\ UNCHANGED <<now, handlerVars, noteVars, fileVars>>

\* decryptChunkedFile, downloadAndDecryptChunk(index): GET /api/files/chunk
\* and crypto.subtle.decrypt of the body. Either failure rejects
\* Promise.all, so decryptChunkedFile throws before its finalize request, and
\* revealFileWithPassphrase rethrows whatever it was as INVALID_PASSPHRASE.
DecryptChunkedFileGet(downloadError, authFails) ==
  LET sent == [flow EXCEPT !.sent = @ \cup {"chunk"}] IN
  /\ flow.pc = "chunks"
  /\ flow' = IF ChunkGetStatus(flow.id, flow.index, flow.token, downloadError) # 200
               THEN Throw(sent, "INVALID_PASSPHRASE")
             ELSE IF authFails
               THEN ThrowAuth(sent, "INVALID_PASSPHRASE")
               ELSE [sent EXCEPT !.index = @ + 1,
                                 !.pc = IF flow.index + 1 = flow.total_chunks
                                          THEN "finalize" ELSE "chunks"]
  /\ UNCHANGED <<now, handlerVars, noteVars, fileVars>>

\* decryptChunkedFile: POST /api/files/[id]/finalize once every chunk is in;
\* its failure is not thrown.
DecryptChunkedFileFinalize(storageError) ==
  /\ flow.pc = "finalize"
  /\ FinalizeEffect(flow.id, flow.token, storageError)
  /\ flow' = [flow EXCEPT !.pc = "returned", !.outcome = "blob",
                          !.sent = @ \cup {"finalize"}]
  /\ UNCHANGED <<now, handlerVars, noteVars, fileUsed, minted, dreq, delivered, tokenServed>>

\* ------------------------------------- chunk download and finalize
\* The files the chunked handlers are asked about.
ChunkedIds == {"f1", "f2"}
\* The total_chunks init-chunked is given, and the indexes requests name.
ChunkTotals == {1, 2}
ChunkIndexes == {0, 1, 2}
\* Expiry instants of chunked files, and the clock's last instant: one tick
\* past the lifetime of a multi-use token drawn at 0.
ChunkExpiryChoices == {1, MultiUseTTL + 1}
ChunkClockEnd == MultiUseTTL + 1

\* The answer to GET /api/files/chunk or POST /api/files/[id]/finalize.
\* "after" tells whether finalize_chunked_download had deleted the file when
\* the request arrived, "again" whether the answer before it was a 200 to a
\* chunk download with the same token.
NoAnswer == [op |-> "none", id |-> Null, index |-> 0, token |-> NoToken, status |-> 0,
             success |-> FALSE, after |-> FALSE, again |-> FALSE]

\* Variant: a chunk download that spends the token it was shown.
ChunkGet_Consuming(id, index, tok, downloadError) ==
  LET status == ChunkGetStatus(id, index, tok, downloadError) IN
  /\ answer' = [NoAnswer EXCEPT !.op = "chunk", !.id = id, !.index = index, !.token = tok,
                                !.status = status, !.after = id \in finalized]
  /\ tokens' = IF status = 200 THEN [tokens EXCEPT ![tok].used = TRUE] ELSE tokens
  /\ UNCHANGED <<now, files, fileUsed, blobs, minted, dreq, delivered, tokenServed, finalized, mreq, ureq, up>>
  /\ UNCHANGED <<noteVars, flow, intakeVars>>

\* GET /api/files/chunk: validate_download_token, the files row and the
\* object are read; nothing is written.
ChunkGet(id, index, tok, downloadError) ==
  LET status == ChunkGetStatus(id, index, tok, downloadError) IN
  /\ answer' = [NoAnswer EXCEPT !.op = "chunk", !.id = id, !.index = index, !.token = tok,
                                !.status = status, !.after = id \in finalized,
                                !.again = /\ status = 200
                                          /\ answer.op = "chunk"
                                          /\ answer.status = 200
                                          /\ answer.token = tok]
  /\ UNCHANGED <<now, fileVars, finalized, mreq, ureq, up>>
  /\ UNCHANGED <<noteVars, flow, intakeVars>>

\* Variant: a finalize that answers 404 for a file that is not there.
FinalizeStatus_NotFound(id, tok) ==
  IF tok = NoToken THEN 400 ELSE IF id \notin DOMAIN files THEN 404 ELSE 200

\* POST /api/files/[id]/finalize: the status it answers. Without a token it
\* is 400; every other answer is { success: true } with status 200.
FinalizeStatus(id, tok) == IF tok = NoToken THEN 400 ELSE 200

\* POST /api/files/[id]/finalize
Finalize(id, tok, storageError) ==
  /\ answer' = [NoAnswer EXCEPT !.op = "finalize", !.id = id, !.token = tok,
                                !.status = FinalizeStatus(id, tok),
                                !.success = FinalizeStatus(id, tok) = 200,
                                !.after = id \in finalized]
  /\ IF tok = NoToken
       THEN UNCHANGED <<files, tokens, blobs, finalized>>
       ELSE /\ FinalizeEffect(id, tok, storageError)
            /\ finalized' = IF id \in DOMAIN files /\ FinalizeWhere(tok, id, now)
                               THEN finalized \cup {id} ELSE finalized
  /\ UNCHANGED <<now, fileUsed, minted, dreq, delivered, tokenServed, mreq, ureq, up>>
  /\ UNCHANGED <<noteVars, flow, intakeVars>>

\* ------------------------------------------------ file metadata
\* A GET /api/files/[id]/meta request. "live" and "chunks" are what held of
\* the file when the request arrived: whether its row was there with
\* now <= expires_at, and its total_chunks. "token", "multi", "expires_at"
\* and "at" are the token the answer carries, its kind and expiry, and the
\* NOW() of the transaction that drew it.
IdleMeta == [pc |-> "idle", id |-> Null, live |-> FALSE, chunks |-> 0, status |-> 0,
             token |-> NoToken, multi |-> FALSE, expires_at |-> 0, at |-> 0]

\* GET /api/files/[id]/meta: the select on files with
\* .gt('expires_at', new Date().toISOString()); no row, 404.
MetaSelect(id) ==
  LET base == [IdleMeta EXCEPT !.id = id, !.live = GenerateWhere(files, id, now),
                               !.chunks = IF id \in DOMAIN files
                                            THEN files[id].total_chunks ELSE 0]
  IN
  /\ mreq.pc \in {"idle", "done"}
  /\ mreq' = IF FileMetaWhere(files, id, now)
               THEN [base EXCEPT !.pc = "generate"]
               ELSE [base EXCEPT !.pc = "done", !.status = 404]
  /\ UNCHANGED <<now, fileVars, answer, finalized, ureq, up>>
  /\ UNCHANGED <<noteVars, flow, intakeVars>>

\* GET /api/files/[id]/meta: rpc('generate_download_token'). The function
\* raises when the file is not there or has expired, and the handler answers
\* 500; otherwise the token row is inserted and the answer carries it.
MetaGenerate ==
  /\ mreq.pc = "generate"
  /\ IF ~GenerateWhere(files, mreq.id, now)
       THEN /\ mreq' = [mreq EXCEPT !.pc = "done", !.status = 500]
            /\ UNCHANGED <<tokens, minted>>
       ELSE /\ minted < MaxTokens
            /\ generate_download_token(mreq.id)
            /\ mreq' = [mreq EXCEPT !.pc = "done", !.status = 200, !.token = minted + 1,
                                    !.multi = tokens'[minted + 1].is_multi_use,
                                    !.expires_at = tokens'[minted + 1].expires_at,
                                    !.at = now]
  /\ UNCHANGED <<now, files, fileUsed, blobs, dreq, delivered, tokenServed, answer, finalized, ureq, up>>
  /\ UNCHANGED <<noteVars, flow, intakeVars>>

\* -------------------------------------------------- chunk upload
\* A POST /api/files/chunk request: the form fields, where the handler
\* stands, and its answer. "cause" tells the answers with one status apart.
IdleUp == [pc |-> "idle", id |-> Null, index |-> 0, total |-> 0, iv |-> Null, body |-> Null,
           status |-> 0, cause |-> "none"]

\* The answer to request r: of the request it keeps the file and the index,
\* and the body when the answer is ok.
UpAnswer(r, status, cause) ==
  [IdleUp EXCEPT !.pc = "done", !.id = r.id, !.index = r.index,
                 !.body = IF status = 200 THEN r.body ELSE Null,
                 !.status = status, !.cause = cause]

\* Variant: an index check that lets index = total_chunks through.
ChunkPostStatus_OffByOne(tbl, id, index, total, t) ==
  IF id \notin DOMAIN tbl THEN 404
  ELSE IF t > tbl[id].expires_at THEN 410
  ELSE IF index < 0 \/ index > tbl[id].total_chunks THEN 400
  ELSE IF total # tbl[id].total_chunks THEN 400
  ELSE 0

\* POST /api/files/chunk: the checks on the files row, in the handler's
\* order: not found 404, expired 410, index out of bounds 400, total
\* mismatch 400; 0 when the request passes.
ChunkPostStatus(tbl, id, index, total, t) ==
  IF id \notin DOMAIN tbl THEN 404
  ELSE IF t > tbl[id].expires_at THEN 410
  ELSE IF index < 0 \/ index >= tbl[id].total_chunks THEN 400
  ELSE IF total # tbl[id].total_chunks THEN 400
  ELSE 0

\* POST /api/files/chunk up to the end of its checks: rate limit, the select
\* on files and the validations.
UpStart(c, id, index, total, iv, body, admitted) ==
  LET r == [IdleUp EXCEPT !.id = id, !.index = index, !.total = total, !.iv = iv,
                          !.body = body]
      st == ChunkPostStatus(files, id, index, total, now)
  IN
  /\ ureq[c].pc = "idle"
  /\ ureq' = [ureq EXCEPT ![c] =
       IF ~admitted THEN UpAnswer(r, 429, "rate limit")
       ELSE IF st # 0 THEN UpAnswer(r, st, "validation")
       ELSE [r EXCEPT !.pc = IF iv # Null /\ index = 0 THEN "update" ELSE "list"]]
  /\ UNCHANGED <<now, fileVars, answer, finalized, mreq, up>>
  /\ UNCHANGED <<noteVars, flow, intakeVars>>

\* Variant: the base IV is not written.
UpUpdate_Skipped(c, updateError) ==
  /\ ureq[c].pc = "update"
  /\ ureq' = [ureq EXCEPT ![c].pc = "list"]
  /\ UNCHANGED <<now, fileVars, answer, finalized, mreq, up>>
  /\ UNCHANGED <<noteVars, flow, intakeVars>>

\* if (iv_base_b64u && index === 0): update files set iv_base_b64u where
\* id = fileId; an error is answered 500.
UpUpdate(c, updateError) ==
  LET r == ureq[c] IN
  /\ r.pc = "update"
  /\ IF updateError
       THEN /\ ureq' = [ureq EXCEPT ![c] = UpAnswer(r, 500, "database")]
            /\ UNCHANGED files
       ELSE /\ ureq' = [ureq EXCEPT ![c].pc = "list"]
            /\ files' = IF r.id \in DOMAIN files
                           THEN [files EXCEPT ![r.id].iv_base_b64u = r.iv] ELSE files
  /\ UNCHANGED <<now, fileUsed, blobs, tokens, minted, dreq, delivered, tokenServed>>
  /\ UNCHANGED <<answer, finalized, mreq, up>>
  /\ UNCHANGED <<noteVars, flow, intakeVars>>

\* Variant: the handler never finds the object and goes on to upload it.
UpList_NoCheck(c, checkError) ==
  /\ ureq[c].pc = "list"
  /\ ureq' = [ureq EXCEPT ![c].pc = "upload"]
  /\ UNCHANGED <<now, fileVars, answer, finalized, mreq, up>>
  /\ UNCHANGED <<noteVars, flow, intakeVars>>

\* storage.list(fileId, { search: part-NNNNN }): an error is answered 500,
\* an object found is answered { ok: true, message: 'Chunk already exists' }.
UpList(c, checkError) ==
  LET r == ureq[c] IN
  /\ r.pc = "list"
  /\ ureq' = [ureq EXCEPT ![c] =
       IF checkError THEN UpAnswer(r, 500, "storage")
       ELSE IF ChunkPath(r.id, r.index) \in DOMAIN blobs THEN UpAnswer(r, 200, "exists")
       ELSE [r EXCEPT !.pc = "upload"]]
  /\ UNCHANGED <<now, fileVars, answer, finalized, mreq, up>>
  /\ UNCHANGED <<noteVars, flow, intakeVars>>

\* storage.upload(path, chunk, { upsert: false }): the object is created;
\* when one is there already the storage refuses, and any upload error is
\* answered 500.
\* The upload step answering ok without storing the object.
UpUpload_NoWrite(c, uploadError) ==
  LET r == ureq[c]
  IN
  /\ r.pc = "upload"
  /\ ureq' = [ureq EXCEPT ![c] = UpAnswer(r, 200, "created")]
  /\ UNCHANGED blobs
  /\ UNCHANGED <<now, files, fileUsed, tokens, minted, dreq, delivered, tokenServed>>
  /\ UNCHANGED <<answer, finalized, mreq, up>>
  /\ UNCHANGED <<noteVars, flow, intakeVars>>

UpUpload(c, uploadError) ==
  LET r == ureq[c]
      path == ChunkPath(r.id, r.index)
  IN
  /\ r.pc = "upload"
  /\ IF uploadError
       THEN /\ ureq' = [ureq EXCEPT ![c] = UpAnswer(r, 500, "storage")]
            /\ UNCHANGED blobs
     ELSE IF path \in DOMAIN blobs
       THEN /\ ureq' = [ureq EXCEPT ![c] = UpAnswer(r, 500, "duplicate")]
            /\ UNCHANGED blobs
       ELSE /\ ureq' = [ureq EXCEPT ![c] = UpAnswer(r, 200, "created")]
            /\ blobs' = blobs @@ (path :> r.body)
  /\ UNCHANGED <<now, files, fileUsed, tokens, minted, dreq, delivered, tokenServed>>
  /\ UNCHANGED <<answer, finalized, mreq, up>>
  /\ UNCHANGED <<noteVars, flow, intakeVars>>

\* ------------------------------------------- the uploading browser
\* retryAttempts: 3
RetryAttempts == 3
\* UPLOAD_CONFIG.retryDelay, in milliseconds
RetryDelay == 1000

\* The workers of the pool: the first takes chunk 0 from the queue, the
\* second chunk 1.
UploadWorkers == {1, 2}
ChunkOf(c) == c - 1

\* The run of encryptAndUploadInChunks: the file id, the base IV it drew,
\* the totalChunks it computed, the attempt each worker is at, and the
\* chunks whose upload was answered ok, and the delays each worker has
\* waited before its retries.
IdleUpload == [pc |-> "idle", id |-> Null, ivBase |-> Null, total |-> 0,
               attempt |-> [c \in UploadWorkers |-> 1], uploaded |-> {},
               delays |-> [c \in UploadWorkers |-> <<>>]]

\* const delay = UPLOAD_CONFIG.retryDelay * Math.pow(2, attempt - 1)
Backoff(attempt) == RetryDelay * (2 ^ (attempt - 1))

\* encryptAndUploadInChunks(file, rawKey, fileId) is called with the id
\* init-chunked answered: ivBase = generateIV(), totalChunks from the
\* file's size.
UploadBegin(id, iv, totalChunks) ==
  /\ up.pc = "idle"
  /\ id \in DOMAIN files
  /\ files[id].iv_base_b64u = EmptyIv
  /\ up' = [IdleUpload EXCEPT !.pc = "uploading", !.id = id, !.ivBase = iv,
                              !.total = totalChunks]
  /\ UNCHANGED <<now, noteVars, fileVars, flow, answer, finalized, mreq, ureq, intakeVars>>

\* uploadChunk(chunkIndex, attempt): the POST /api/files/chunk of a worker
\* arrives; iv_base_b64u is in the form of chunk 0 only.
UploadSend(c, admitted) ==
  /\ up.pc \in {"uploading", "thrown"}
  /\ ChunkOf(c) < up.total
  /\ ChunkOf(c) \notin up.uploaded
  /\ up.attempt[c] <= RetryAttempts
  /\ UpStart(c, up.id, ChunkOf(c), up.total,
             IF ChunkOf(c) = 0 THEN up.ivBase ELSE Null, "b1", admitted)

\* Variant: an uploadChunk that retries without a limit.
UploadRecv_RetryForever(c, lost) ==
  LET ok == ureq[c].status = 200 /\ ~lost
      uploaded == up.uploaded \cup {ChunkOf(c)}
  IN
  /\ up.pc \in {"uploading", "thrown"}
  /\ ureq[c].pc = "done"
  /\ ureq' = [ureq EXCEPT ![c] = IdleUp]
  /\ up' = IF ok
             THEN [up EXCEPT !.uploaded = uploaded,
                             !.pc = IF up.pc = "uploading" /\ uploaded = 0..(up.total - 1)
                                      THEN "done" ELSE up.pc]
             ELSE up
  /\ UNCHANGED <<now, noteVars, fileVars, flow, answer, finalized, mreq, intakeVars>>

\* uploadChunk: the response. ok counts the chunk, and the run is over when
\* every worker is done; a response that is not ok, or none, is retried
\* after the backoff delay until retryAttempts is reached, and then the run
\* throws.
UploadRecv(c, lost) ==
  LET ok == ureq[c].status = 200 /\ ~lost
      uploaded == up.uploaded \cup {ChunkOf(c)}
  IN
  /\ up.pc \in {"uploading", "thrown"}
  /\ ureq[c].pc = "done"
  /\ ureq' = [ureq EXCEPT ![c] = IdleUp]
  /\ up' = IF ok
             THEN [up EXCEPT !.uploaded = uploaded,
                             !.pc = IF up.pc = "uploading" /\ uploaded = 0..(up.total - 1)
                                      THEN "done" ELSE up.pc]
           ELSE IF up.attempt[c] < RetryAttempts
             THEN [up EXCEPT !.attempt[c] = @ + 1,
                             !.delays[c] = Append(@, Backoff(up.attempt[c]))]
             ELSE [up EXCEPT !.attempt[c] = @ + 1, !.pc = "thrown"]
  /\ UNCHANGED <<now, noteVars, fileVars, flow, answer, finalized, mreq, intakeVars>>

\* Math.ceil(a / b) for an integer a and a positive integer b.
Ceil(a, b) == (a + b - 1) \div b

\* ------------------------------------------- POST /api/files/init-chunked
MB == 1024 * 1024
\* const maxSize = 500 * 1024 * 1024
maxSize == 500 * 1024 * 1024
\* const minChunkSize = 1024 * 1024; const maxChunkSize = 4 * 1024 * 1024
minChunkSize == 1024 * 1024
maxChunkSize == 4 * 1024 * 1024

\* What a client can put into the body: 0 stands for a field that is
\* missing or zero, both of which `!field` takes as missing.
InitSizes == {0, 1, MB, (3 * MB) + 1, 5 * MB, maxSize, maxSize + 1}
InitChunkBytes == {0, minChunkSize - 1, minChunkSize, 2 * MB, maxChunkSize, maxChunkSize + 1}
InitTotals == {0, 1, 2, 3, 5}
NoPath == <<>>

IdleInit == [id |-> Null, file_size |-> 0, chunk_bytes |-> 0, total_chunks |-> 0,
             status |-> 0]

\* The status POST /api/files/init-chunked answers with.
InitChunkedStatus(file_size, chunk_bytes, total_chunks, admitted, dbError) ==
  IF ~admitted THEN 429
  ELSE IF file_size = 0 \/ chunk_bytes = 0 \/ total_chunks = 0 THEN 400
  ELSE IF file_size > maxSize THEN 413
  ELSE IF chunk_bytes < minChunkSize \/ chunk_bytes > maxChunkSize THEN 400
  ELSE IF dbError THEN 500
  ELSE 200

\* POST /api/files/init-chunked, the whole handler: rate limit, required
\* fields, size and chunk size limits, the insert of the row with the
\* client's size_bytes, chunk_bytes and total_chunks, and the update that
\* sets storage_path, whose failure is logged only.
InitChunked(id, file_size, chunk_bytes, total_chunks, expires_at, admitted, dbError, updateError) ==
  LET status == InitChunkedStatus(file_size, chunk_bytes, total_chunks, admitted, dbError)
  IN
  /\ id \notin fileUsed
  /\ ireq' = [id |-> IF status = 200 THEN id ELSE Null, file_size |-> file_size,
              chunk_bytes |-> chunk_bytes, total_chunks |-> total_chunks,
              status |-> status]
  /\ IF status = 200
       THEN /\ files' = files @@ (id :>
                  [size_bytes |-> file_size,
                   chunk_bytes |-> chunk_bytes,
                   total_chunks |-> total_chunks,
                   storage_path |-> IF updateError THEN NoPath ELSE <<"dir", id>>,
                   iv_base_b64u |-> EmptyIv,
                   expires_at |-> expires_at,
                   passphrase_hash |-> NoHash,
                   validation_salt_b64u |-> Null,
                   pass_salt_b64u |-> Null])
            /\ fileUsed' = fileUsed \cup {id}
       ELSE UNCHANGED <<files, fileUsed>>
  /\ UNCHANGED <<now, blobs, tokens, minted, dreq, delivered, tokenServed>>
  /\ UNCHANGED <<noteVars, flow, answer, finalized, mreq, ureq, up, wreq, rate_limits, rreq, lateVars>>

\* ------------------------------------------- POST /api/files/upload, step by step
\* const chunkThreshold = 100 * 1024 * 1024
chunkThreshold == 100 * 1024 * 1024

\* The multipart form a client posts, and the size of its file.
WholeForms == {"complete", "no file", "no meta", "no iv"}
WholeSizes == {1, chunkThreshold, chunkThreshold + 1, maxSize + 1}

IdleWhole == [pc |-> "idle", id |-> Null, expires_at |-> 0, status |-> 0, cause |-> Null]
WholeAnswer(r, status, cause) == [r EXCEPT !.pc = "done", !.status = status, !.cause = cause]

\* The status of the checks made before anything is written.
WholeUploadStatus(form, size, admitted) ==
  IF ~admitted THEN 429
  ELSE IF form \in {"no file", "no meta", "no iv"} THEN 400
  ELSE IF size > maxSize THEN 413
  ELSE IF size > chunkThreshold THEN 413
  ELSE 200

\* Rate limit, form and size checks, and crypto.randomUUID() for the path.
WholeStart(id, form, size, expires_at, admitted) ==
  LET status == WholeUploadStatus(form, size, admitted)
      r == [IdleWhole EXCEPT !.id = id, !.expires_at = expires_at]
  IN
  /\ wreq.pc \in {"idle", "done"}
  /\ id \notin fileUsed
  /\ StoragePath(id) \notin DOMAIN blobs
  /\ wreq' = IF status = 200 THEN [r EXCEPT !.pc = "store"]
              ELSE WholeAnswer(r, status, "validation")
  /\ UNCHANGED <<now, noteVars, fileVars, flow, answer, finalized, mreq, ureq, up, ireq, rate_limits, rreq, lateVars>>

\* storage.upload(storagePath, file, { upsert: false })
WholeStore(uploadError) ==
  /\ wreq.pc = "store"
  /\ IF uploadError
       THEN /\ wreq' = WholeAnswer(wreq, 500, "storage")
            /\ UNCHANGED blobs
       ELSE /\ wreq' = [wreq EXCEPT !.pc = "insert"]
            /\ blobs' = blobs @@ (StoragePath(wreq.id) :> "b1")
  /\ UNCHANGED <<now, files, fileUsed, tokens, minted, dreq, delivered, tokenServed>>
  /\ UNCHANGED <<noteVars, flow, answer, finalized, mreq, ureq, up, ireq, rate_limits, rreq, lateVars>>

\* from('files').insert({...}).select('id').single(): the row, or dbError.
WholeInsert(dbError) ==
  /\ wreq.pc = "insert"
  /\ IF dbError
       THEN /\ wreq' = [wreq EXCEPT !.pc = "remove"]
            /\ UNCHANGED <<files, fileUsed>>
       ELSE /\ wreq' = WholeAnswer(wreq, 200, "created")
            /\ files' = files @@ (wreq.id :>
                  [total_chunks |-> 1,
                   storage_path |-> StoragePath(wreq.id),
                   iv_base_b64u |-> "iv1",
                   expires_at |-> wreq.expires_at,
                   passphrase_hash |-> NoHash,
                   validation_salt_b64u |-> Null,
                   pass_salt_b64u |-> Null])
            /\ fileUsed' = fileUsed \cup {wreq.id}
  /\ UNCHANGED <<now, blobs, tokens, minted, dreq, delivered, tokenServed>>
  /\ UNCHANGED <<noteVars, flow, answer, finalized, mreq, ureq, up, ireq, rate_limits, rreq, lateVars>>

\* await storage.remove([storagePath]) after dbError: the result is not
\* looked at, and the answer is 500 either way.
WholeRemove(removeError) ==
  /\ wreq.pc = "remove"
  /\ wreq' = WholeAnswer(wreq, 500, "metadata")
  /\ blobs' = IF removeError THEN blobs ELSE RemoveObjects(blobs, {StoragePath(wreq.id)})
  /\ UNCHANGED <<now, files, fileUsed, tokens, minted, dreq, delivered, tokenServed>>
  /\ UNCHANGED <<noteVars, flow, answer, finalized, mreq, ureq, up, ireq, rate_limits, rreq, lateVars>>

\* ------------------------------------------- rateLimit
\* RATE_LIMIT_CONFIGS: maxRequests of createNote and of noteFetch, and the
\* windowMs all endpoints share. One tick of the clock is a second.
CreateNoteMaxRequests == 2
NoteFetchMaxRequests == 3
windowMs == 2 * 1000
Endpoints == {"createNote", "noteFetch"}
maxRequests(endpoint) ==
  IF endpoint = "createNote" THEN CreateNoteMaxRequests ELSE NoteFetchMaxRequests

\* getClientIP(request)
Ips == {"ip1", "ip2"}

\* Date.now()
DateNow(t) == t * 1000
RateClockEnd == (windowMs \div 1000) + 1

\* The call of rateLimit that fails: none, the select, the delete or the
\* insert returning an error, or the select throwing.
Faults == {"none", "select", "delete", "insert", "throw"}

\* Variant: the window without its oldest instant.
InWindow_Strict(rows, windowStart) ==
  SelectSeq(rows, LAMBDA e : e.timestamp > windowStart)

\* .eq('key', key).gte('timestamp', windowStart), oldest first.
InWindow(rows, windowStart) ==
  SelectSeq(rows, LAMBDA e : e.timestamp >= windowStart)

IdleRate == [pc |-> "idle", ip |-> Null, endpoint |-> Null, at |-> 0, count |-> 0,
             success |-> TRUE, remaining |-> 0, resetTime |-> 0, error |-> Null,
             status |-> 0, retryAfter |-> 0, sentAt |-> 0]

\* Variant: a backend error answered as a rejection.
FailOpen_Closed(r, N, t, fault) ==
  [r EXCEPT !.success = FALSE, !.remaining = 0,
            !.resetTime = t + windowMs, !.error = fault]

\* On database error, allow the request (fail open).
FailOpen(r, N, t, fault) ==
  [r EXCEPT !.success = TRUE, !.remaining = N - 1,
            !.resetTime = t + windowMs, !.error = fault]

\* rateLimit(request, config) for sequential requests: the select of the
\* key's rows in the window, the delete of the older ones, the comparison
\* with maxRequests and the insert. A row is the key's timestamp.
RateLimit(ip, endpoint, fault) ==
  LET t == DateNow(now)
      windowStart == t - windowMs
      N == maxRequests(endpoint)
      currentEntries == InWindow(rate_limits[ip], windowStart)
      currentCount == Len(currentEntries)
      cleaned == IF currentCount > 0 /\ fault # "delete"
                   THEN currentEntries ELSE rate_limits[ip]
      r == [IdleRate EXCEPT !.pc = "limited", !.ip = ip, !.endpoint = endpoint,
                            !.at = t, !.sentAt = t]
  IN
  /\ rreq.pc \in {"idle", "done"}
  /\ IF fault \in {"select", "throw"}
       THEN /\ rreq' = FailOpen(r, N, t, fault)
            /\ UNCHANGED rate_limits
     ELSE IF currentCount >= N
       THEN /\ rreq' = [r EXCEPT !.count = currentCount, !.success = FALSE,
                                  !.remaining = 0,
                                  !.resetTime = Head(currentEntries).timestamp + windowMs]
            /\ rate_limits' = [rate_limits EXCEPT ![ip] = cleaned]
     ELSE IF fault = "insert"
       THEN /\ rreq' = FailOpen([r EXCEPT !.count = currentCount], N, t, fault)
            /\ rate_limits' = [rate_limits EXCEPT ![ip] = cleaned]
       ELSE /\ rreq' = [r EXCEPT !.count = currentCount, !.success = TRUE,
                                  !.remaining = N - currentCount - 1,
                                  !.resetTime = t + windowMs]
            /\ rate_limits' = [rate_limits EXCEPT ![ip] =
                                 Append(cleaned, [timestamp |-> t])]
  /\ UNCHANGED <<now, noteVars, fileVars, flow, answer, finalized, mreq, ureq, up, ireq, wreq, lateVars>>

\* 'Retry-After' of the 429: POST /api/notes computes it from resetTime and
\* a second Date.now(); POST /api/notes/[id]/fetch sends the seconds of the
\* window as a literal.
FixedRetryAfter == windowMs \div 1000
RetryAfter(endpoint, resetTime, t) ==
  IF endpoint = "createNote" THEN Ceil(resetTime - t, 1000) ELSE FixedRetryAfter

\* The handler on the result of rateLimit: 429 with Retry-After when
\* success is false, and otherwise it goes on with the request.
RateRespond ==
  /\ rreq.pc = "limited"
  /\ rreq' = IF rreq.success
               THEN [rreq EXCEPT !.pc = "done", !.status = 200, !.sentAt = DateNow(now)]
               ELSE [rreq EXCEPT !.pc = "done", !.status = 429, !.sentAt = DateNow(now),
                                 !.retryAfter = RetryAfter(rreq.endpoint, rreq.resetTime,
                                                           DateNow(now))]
  /\ UNCHANGED <<now, noteVars, fileVars, flow, answer, finalized, mreq, ureq, up, ireq, wreq,
                 rate_limits, lateVars>>


\* --------------------------------------------------------------- middleware
\* STATE_CHANGING_METHODS, and one method outside the list.
STATE_CHANGING_METHODS == {"POST", "PUT", "DELETE", "PATCH"}
Methods == STATE_CHANGING_METHODS \cup {"GET"}
CSRF_EXEMPT_ROUTES == {}

\* request.nextUrl.origin, and the origin of another site.
OwnOrigin == "https://safemonk.example"
ForeignOrigin == "https://evil.example"

\* Paths as sequences of segments; pathname.startsWith('/api/').
Pathnames == {<<"api", "notes">>, <<"api", "files", "chunk">>, <<"n", "abc">>}
StartsWithApi(pathname) == Len(pathname) >= 2 /\ pathname[1] = "api"

\* headers.get(...) gives null for an absent header.
NoHeader == "null"
OriginHeaders == {NoHeader, OwnOrigin, ForeignOrigin}
\* A Referer is a URL: origin and path; or a string new URL() does not parse.
Malformed == <<"malformed">>
NoReferer == <<NoHeader>>
RefererHeaders == {NoReferer, Malformed, <<OwnOrigin, "/create">>, <<ForeignOrigin, "/attack">>}
SecFetchSites == {NoHeader, "same-origin", "same-site", "cross-site", "none"}

\* new URL(requestReferer).origin
URLOrigin(referer) == referer[1]

IdleMiddleware ==
  [method |-> "GET", pathname |-> <<"n", "abc">>, origin |-> NoHeader, referer |-> NoReferer,
   secFetchSite |-> NoHeader, result |-> "idle", status |-> 0]

\* What middleware returns: "next" (NextResponse.next(), the route handler
\* runs), "refused" (a 403 response) or "thrown" (new URL threw).
Refused == [result |-> "refused", status |-> 403]
Passed == [result |-> "next", status |-> 0]
Thrown == [result |-> "thrown", status |-> 500]

CsrfCheck(requestOrigin, requestReferer, secFetchSite) ==
  IF secFetchSite \in {"same-origin", "none"} THEN Passed
  ELSE IF requestOrigin # NoHeader
    THEN IF requestOrigin # OwnOrigin THEN Refused ELSE Passed
  ELSE IF requestReferer # NoReferer
    THEN IF requestReferer = Malformed THEN Thrown
         ELSE IF URLOrigin(requestReferer) # OwnOrigin THEN Refused ELSE Passed
  ELSE Passed

MiddlewareResult(method, pathname, requestOrigin, requestReferer, secFetchSite) ==
  IF StartsWithApi(pathname) /\ method \in STATE_CHANGING_METHODS
    THEN IF \E route \in CSRF_EXEMPT_ROUTES : route = pathname
           THEN Passed
           ELSE CsrfCheck(requestOrigin, requestReferer, secFetchSite)
    ELSE Passed

Middleware(method, pathname, requestOrigin, requestReferer, secFetchSite) ==
  LET r == MiddlewareResult(method, pathname, requestOrigin, requestReferer, secFetchSite) IN
  /\ mw' = [method |-> method, pathname |-> pathname, origin |-> requestOrigin,
            referer |-> requestReferer, secFetchSite |-> secFetchSite,
            result |-> r.result, status |-> r.status]
  /\ UNCHANGED <<earlyVars, gcm, rcall, cform>>


\* --------------------------------------------------------------- chunk encryption
\* AES-GCM, symbolically: a ciphertext remembers the key, the IV and the
\* additional data it was made with, and decrypt gives the plaintext back
\* only for the same three; otherwise it throws OperationError.
GcmKeys == {"k1", "k2"}
OperationError == <<"OperationError">>
Encrypt(key, iv, aad, plaintext) == [key |-> key, iv |-> iv, aad |-> aad, plain |-> plaintext]
Decrypt(key, iv, aad, ct) ==
  IF ct.key = key /\ ct.iv = iv /\ ct.aad = aad THEN ct.plain ELSE OperationError

\* A 12-byte IV as <<bytes 0..7, bytes 8..11 read as a big-endian uint32>>.
\* generateIV() draws all twelve bytes at random.
IvBases == {<<"A", 7>>, <<"A", 9>>, <<"B", 7>>}
\* new Uint8Array(ivBase); setUint32(8, chunkIndex, false): bytes 8..11 are
\* overwritten by the index (indexes here are far below 2^32).
ChunkIv(ivBase, chunkIndex) == <<ivBase[1], chunkIndex>>

\* String(n) for n >= 0, as a sequence of characters.
DigitChars == <<"0", "1", "2", "3", "4", "5", "6", "7", "8", "9">>
RECURSIVE Decimal(_)
Decimal(n) == IF n < 10 THEN <<DigitChars[n + 1]>>
              ELSE Decimal(n \div 10) \o <<DigitChars[(n % 10) + 1]>>
\* encoder.encode(`chunk:${chunkIndex}/${totalChunks}`)
ChunkAad_NoTotal(chunkIndex, totalChunks) == <<"chunk:">> \o Decimal(chunkIndex)
ChunkAad(chunkIndex, totalChunks) ==
  <<"chunk:">> \o Decimal(chunkIndex) \o <<"/">> \o Decimal(totalChunks)

GcmTotals == {1, 2, 3}
Slice(chunkIndex) == <<"slice", chunkIndex>>

\* uploadChunk: the ciphertext of chunk chunkIndex.
EncryptChunk(key, ivBase, totalChunks, chunkIndex) ==
  Encrypt(key, ChunkIv(ivBase, chunkIndex), ChunkAad(chunkIndex, totalChunks), Slice(chunkIndex))

\* downloadAndDecryptChunk: what is decrypted at position chunkIndex from the
\* body the server answered with.
DecryptChunk(key, ivBase, totalChunks, chunkIndex, encryptedChunk) ==
  Decrypt(key, ChunkIv(ivBase, chunkIndex), ChunkAad(chunkIndex, totalChunks), encryptedChunk)

IdleGcm ==
  [pc |-> "idle", key |-> "k1", ivBase |-> <<"A", 7>>, total |-> 1,
   dkey |-> "k1", divBase |-> <<"A", 7>>, dtotal |-> 1, presented |-> <<0>>,
   chunks |-> <<>>, result |-> "none"]

\* encryptAndUploadInChunks encrypts every chunk of a file of totalChunks chunks.
EncryptFile(key, ivBase, totalChunks) ==
  /\ gcm.pc = "idle"
  /\ gcm' = [IdleGcm EXCEPT !.pc = "encrypted", !.key = key, !.ivBase = ivBase,
                            !.total = totalChunks]
  /\ UNCHANGED <<earlyVars, mw, rcall, cform>>

\* decryptChunkedFile(fileId, key, ivBase, totalChunks, token) where the
\* server answers the request for position j with the stored ciphertext of
\* chunk presented[j] of the encrypted file. Promise.all rejects when one
\* chunk's decrypt throws; otherwise the Blob of all chunks is returned.
DecryptChunkedFile(key, ivBase, totalChunks, presented) ==
  /\ gcm.pc \in {"encrypted", "decrypted"}
  /\ LET chunks == [j \in 1..totalChunks |->
                      DecryptChunk(key, ivBase, totalChunks, j - 1,
                                   EncryptChunk(gcm.key, gcm.ivBase, gcm.total, presented[j]))]
     IN gcm' = [gcm EXCEPT !.pc = "decrypted", !.dkey = key, !.divBase = ivBase,
                           !.dtotal = totalChunks, !.presented = presented, !.chunks = chunks,
                           !.result = IF \E j \in 1..totalChunks : chunks[j] = OperationError
                                        THEN "rejected" ELSE "blob"]
  /\ UNCHANGED <<earlyVars, mw, rcall, cform>>


\* --------------------------------------------------------------- rateLimit, await by await
\* Requests that are answered at the same time: each runs rateLimit, which
\* gives way to the others at each of its three database calls.
ConcCallers == {1, 2}
IdleCall == [pc |-> "idle", ip |-> Null, endpoint |-> Null, at |-> 0, count |-> 0,
             success |-> TRUE]
\* The frame of the steps of rateLimit.
outsideRateCalls ==
  <<now, noteVars, fileVars, flow, answer, finalized, mreq, ureq, up, ireq, wreq, rreq, mw, gcm,
    cform>>

\* now = Date.now(); the select of the key's rows with timestamp >=
\* windowStart; currentCount is what this call goes on with.
RateSelect(c, ip, endpoint) ==
  LET t == DateNow(now) IN
  /\ rcall[c].pc \in {"idle", "done"}
  /\ Len(rate_limits[ip]) <= maxRequests(endpoint) + 1
  /\ rcall' = [rcall EXCEPT ![c] =
       [IdleCall EXCEPT !.pc = "selected", !.ip = ip, !.endpoint = endpoint, !.at = t,
                        !.count = Len(InWindow(rate_limits[ip], t - windowMs))]]
  /\ UNCHANGED <<outsideRateCalls, rate_limits>>

\* if (currentEntries.length > 0) delete the key's rows with timestamp <
\* windowStart.
RateDelete(c) ==
  LET r == rcall[c] IN
  /\ r.pc = "selected"
  /\ rate_limits' = IF r.count > 0
                      THEN [rate_limits EXCEPT ![r.ip] = InWindow(@, r.at - windowMs)]
                      ELSE rate_limits
  /\ rcall' = [rcall EXCEPT ![c].pc = "cleaned"]
  /\ UNCHANGED outsideRateCalls

\* if (currentCount >= config.maxRequests) return success: false; else
\* insert { key, timestamp: now } and return success: true.
RateInsert(c) ==
  LET r == rcall[c]
      admitted == ~(r.count >= maxRequests(r.endpoint))
  IN
  /\ r.pc = "cleaned"
  /\ rate_limits' = IF admitted
                      THEN [rate_limits EXCEPT ![r.ip] = Append(@, [timestamp |-> r.at])]
                      ELSE rate_limits
  /\ rcall' = [rcall EXCEPT ![c].pc = "done", ![c].success = admitted]
  /\ UNCHANGED outsideRateCalls


\* --------------------------------------------------------------- creator form, large files
\* getOptimalChunkSize(fileSize), in crypto.ts and again in the form.
getOptimalChunkSize(fileSize) ==
  IF fileSize < 10 * MB THEN 1 * MB
  ELSE IF fileSize < 100 * MB THEN 2 * MB
  ELSE IF fileSize < 500 * MB THEN 3 * MB
  ELSE 4 * MB

\* The tag AES-GCM appends to a ciphertext, in bytes.
GcmTagBytes == 16
Min(a, b) == IF a < b THEN a ELSE b

\* handleFileSelect: if (file.size > 500 * 1024 * 1024) the file is not taken.
FormAccepts(size) == ~(size > 500 * 1024 * 1024)

\* The sizes of the files a user selects, around the limits of the code.
FormSizes ==
  {1, chunkThreshold, chunkThreshold + 1, maxSize - 1, maxSize, maxSize + 1}
    \cup {(k * 50 * MB) + d : k \in 2..9, d \in {0, 1}}
ShareModes == {"link", "passphrase"}

\* chunk_bytes of an init body that has no such field.
NoField == 0

IdleForm ==
  [pc |-> "idle", mode |-> "link", size |-> 0, chunk_bytes |-> NoField, total_chunks |-> 0,
   initStatus |-> 0, chunkSize |-> 0, totalChunks |-> 0, index |-> 0, bodySize |-> 0,
   chunkStatus |-> 0]

\* The init-chunked body of the form. Link mode: totalChunks =
\* Math.ceil(size / (1024 * 1024)) and no chunk_bytes. Passphrase mode:
\* chunkSize = getOptimalChunkSize(size), totalChunks = Math.ceil(size / chunkSize).
FormChunkBytes(mode, size) ==
  IF mode = "link" THEN NoField ELSE getOptimalChunkSize(size)
FormTotalChunks(mode, size) ==
  IF mode = "link" THEN Ceil(size, 1024 * 1024) ELSE Ceil(size, getOptimalChunkSize(size))

\* handleCreateSecret for a file: a file above chunkThreshold goes to
\* init-chunked, and when that answers ok encryptAndUploadInChunks starts
\* with its own chunkSize and totalChunks; otherwise 'Failed to initialize
\* chunked upload' is thrown. Smaller files are uploaded whole.
FormSubmit(mode, size, admitted) ==
  LET chunk_bytes == FormChunkBytes(mode, size)
      total_chunks == FormTotalChunks(mode, size)
      status == InitChunkedStatus(size, chunk_bytes, total_chunks, admitted, FALSE)
      chunkSize == getOptimalChunkSize(size)
  IN
  /\ cform.pc \in {"idle", "whole", "failed", "uploading", "chunk"}
  /\ FormAccepts(size)
  /\ cform' =
       IF ~(size > chunkThreshold)
         THEN [IdleForm EXCEPT !.pc = "whole", !.mode = mode, !.size = size]
         ELSE [IdleForm EXCEPT !.pc = IF status = 200 THEN "uploading" ELSE "failed",
                               !.mode = mode, !.size = size,
                               !.chunk_bytes = chunk_bytes, !.total_chunks = total_chunks,
                               !.initStatus = status,
                               !.chunkSize = IF status = 200 THEN chunkSize ELSE 0,
                               !.totalChunks = IF status = 200 THEN Ceil(size, chunkSize)
                                               ELSE 0]
  /\ UNCHANGED <<earlyVars, mw, gcm, rcall>>

\* POST /api/files/chunk as far as the body's size and the row's
\* total_chunks decide: 413 above maxChunkSize, 400 for an index out of
\* bounds or another total.
FormChunkStatus(bodySize, index, total, rowTotal) ==
  IF bodySize > maxChunkSize THEN 413
  ELSE IF index < 0 \/ index >= rowTotal THEN 400
  ELSE IF total # rowTotal THEN 400
  ELSE 200

\* uploadChunk(chunkIndex): the slice start..end of the file is encrypted
\* (ciphertext = plaintext + tag) and posted with index and total.
FormChunk(chunkIndex) ==
  LET start == chunkIndex * cform.chunkSize
      end == Min(cform.size, start + cform.chunkSize)
      bodySize == (end - start) + GcmTagBytes
  IN
  /\ cform.pc \in {"uploading", "chunk"}
  /\ chunkIndex \in 0..(cform.totalChunks - 1)
  /\ cform' = [cform EXCEPT !.pc = "chunk", !.index = chunkIndex, !.bodySize = bodySize,
                            !.chunkStatus = FormChunkStatus(bodySize, chunkIndex,
                                                            cform.totalChunks,
                                                            cform.total_chunks)]
  /\ UNCHANGED <<earlyVars, mw, gcm, rcall>>

InitHandlers ==
  /\ cform = IdleForm
  /\ rcall = [c \in ConcCallers |-> IdleCall]
  /\ mw = IdleMiddleware
  /\ gcm = IdleGcm
  /\ rate_limits = [ip \in Ips |-> <<>>]
  /\ rreq = IdleRate
  /\ wreq = IdleWhole
  /\ ireq = IdleInit
  /\ answer = NoAnswer
  /\ finalized = {}
  /\ mreq = IdleMeta
  /\ ureq = [c \in Callers |-> IdleUp]
  /\ up = IdleUpload

Init ==
  /\ now = 0
  /\ InitNotes
  /\ InitFiles
  /\ flow = IdleFlow
  /\ InitHandlers

NextMiddleware ==
  \E method \in Methods, pathname \in Pathnames, o \in OriginHeaders, r \in RefererHeaders,
     s \in SecFetchSites :
    Middleware(method, pathname, o, r, s)

SpecMiddleware == Init /\ [][NextMiddleware]_vars

NextGcm ==
  \/ \E ivBase \in IvBases, totalChunks \in GcmTotals : EncryptFile("k1", ivBase, totalChunks)
  \/ \E key \in GcmKeys, ivBase \in IvBases, totalChunks \in GcmTotals :
       \E presented \in [1..totalChunks -> 0..(gcm.total - 1)] :
         DecryptChunkedFile(key, ivBase, totalChunks, presented)

SpecGcm == Init /\ [][NextGcm]_vars

\* Requests of one address to POST /api/notes, answered concurrently, while
\* the clock runs.
NextRateCalls ==
  \/ \E c \in ConcCallers : RateSelect(c, "ip1", "createNote")
  \/ \E c \in ConcCallers : RateDelete(c)
  \/ \E c \in ConcCallers : RateInsert(c)
  \/ Advance(RateClockEnd)

SpecRateCalls == Init /\ [][NextRateCalls]_vars

\* A user sends files of any accepted size in either share mode; of an
\* upload the first two and the last two chunks are followed.
NextForm ==
  \/ \E mode \in ShareModes, size \in FormSizes, a \in BOOLEAN : FormSubmit(mode, size, a)
  \/ \E i \in {0, 1, cform.totalChunks - 2, cform.totalChunks - 1} : FormChunk(i)

SpecForm == Init /\ [][NextForm]_vars

NextNotes ==
  \/ \E id \in NoteIds, views \in 1..MaxViews, e \in ExpiresInChoices,
        p \in {Null, "correct horse"} :
       NoteCreate(id, views, e, p, "s1", "s2")
  \/ NoteCreateRejected(0)
  \/ \E c \in Callers, id \in NoteIds \cup {BadId}, a \in BOOLEAN, e \in BOOLEAN :
       FetchStart(c, id, a, e)
  \/ \E c \in Callers : FetchLock(c)
  \/ \E c \in Callers : FetchUpdate(c)
  \/ \E id \in NoteIds \cup {BadId}, a \in BOOLEAN : NoteMeta(id, a)
  \/ \E id \in NoteIds \cup {BadId}, h \in Hashes, a \in BOOLEAN : NoteValidate(id, h, a)
  \/ cleanup_expired_notes
  \/ Tick

SpecNotes == Init /\ [][NextNotes]_vars

NextFiles ==
  \/ \E id \in FileIds, e \in FileExpiryChoices : FileUpload(id, e, Null, Null, Null)
  \/ \E id \in FileIds, n \in ChunkCounts, e \in FileExpiryChoices :
       FileInitChunked(id, n, e, Null, Null, Null)
  \/ \E id \in FileIds \cup {OtherFileId} : FileMeta(id)
  \/ \E c \in Callers, id \in FileIds \cup {OtherFileId}, tok \in (1..minted) \cup {NoToken},
        a \in BOOLEAN : DlStart(c, id, tok, a)
  \/ \E c \in Callers : DlConsume(c)
  \/ \E c \in Callers, e \in BOOLEAN : DlRead(c, e)
  \/ \E c \in Callers, e \in BOOLEAN : DlRemove(c, e)
  \/ \E c \in Callers, e \in BOOLEAN : DlDelete(c, e)
  \/ cleanup_expired_files
  \/ cleanup_download_tokens
  \/ Tick

SpecFiles == Init /\ [][NextFiles]_vars

\* The store as one browser sees it: secrets are created, the browser runs
\* one passphrase reveal, and the server works on the requests it sends.
NextReveal ==
  \/ \E id \in NoteIds, v \in 1..MaxViews, e \in ExpiresInChoices,
        p \in {Null, "correct horse"} : NoteCreate(id, v, e, p, "s1", "s2")
  \/ \E id \in FileIds, e \in FileExpiryChoices, p \in {Null, "correct horse"} :
       FileUpload(id, e, p, "s1", "s2")
  \/ \E id \in FileIds, n \in ChunkCounts, e \in FileExpiryChoices,
        p \in {Null, "correct horse"} : FileInitChunked(id, n, e, p, "s1", "s2")
  \/ \E id \in FileIds, i \in 0..1, n \in ChunkCounts : ChunkUpload(id, i, n)
  \/ \E id \in NoteIds, p \in Passphrases : RevealStart("note", id, p)
  \/ \E id \in FileIds, p \in Passphrases : RevealStart("file", id, p)
  \/ \E a \in BOOLEAN : ValidatePassphraseMetaNote(a)
  \/ ValidatePassphraseMetaFile
  \/ \E a \in BOOLEAN : ValidatePassphrasePost(a)
  \/ RevealCheckValid
  \/ \E a \in BOOLEAN : RevealMetaNote(a)
  \/ RevealMetaFile
  \/ RevealFetchSend
  \/ \E a, e \in BOOLEAN : RevealFetchArrives(a, e)
  \/ FetchLock(Client)
  \/ FetchUpdate(Client)
  \/ \E f \in BOOLEAN : RevealFetchRecv(f)
  \/ RevealDownloadSend
  \/ \E a \in BOOLEAN : RevealDownloadArrives(a)
  \/ DlConsume(Client)
  \/ \E e \in BOOLEAN : DlRead(Client, e)
  \/ \E e \in BOOLEAN : DlRemove(Client, e)
  \/ \E e \in BOOLEAN : DlDelete(Client, e)
  \/ \E f \in BOOLEAN : RevealDownloadRecv(f)
  \/ \E e, f \in BOOLEAN : DecryptChunkedFileGet(e, f)
  \/ \E e \in BOOLEAN : DecryptChunkedFileFinalize(e)
  \/ Tick

SpecReveal == Init /\ [][NextReveal]_vars

\* Chunked files are created, filled, handed tokens, read chunk by chunk and
\* finalized, while time passes and the sweepers run.
NextChunks ==
  \/ \E id \in FileIds, n \in ChunkTotals, e \in ChunkExpiryChoices :
       FileInitChunked(id, n, e, Null, Null, Null)
  \/ \E id \in FileIds, i \in ChunkIndexes, n \in ChunkTotals : ChunkUpload(id, i, n)
  \/ \E id \in FileIds : FileMeta(id)
  \/ \E id \in FileIds, i \in ChunkIndexes, tok \in (1..minted) \cup {NoToken},
        e \in BOOLEAN : ChunkGet(id, i, tok, e)
  \/ \E id \in FileIds, tok \in (1..minted) \cup {NoToken}, e \in BOOLEAN :
       Finalize(id, tok, e)
  \/ cleanup_expired_files
  \/ cleanup_download_tokens
  \/ Advance(ChunkClockEnd)

SpecChunks == Init /\ [][NextChunks]_vars

\* Two chunked files and their tokens; one caller asks /download to spend a
\* token, and finalize is asked with every token for every file.
NextFinalize ==
  \/ \E id \in ChunkedIds, n \in ChunkTotals, e \in ChunkExpiryChoices :
       FileInitChunked(id, n, e, Null, Null, Null)
  \/ \E id \in FileIds, n \in ChunkTotals : ChunkUpload(id, 0, n)
  \/ \E id \in ChunkedIds : FileMeta(id)
  \/ \E id \in FileIds, tok \in 1..minted : DlStart(Client, id, tok, TRUE)
  \/ DlConsume(Client)
  \/ \E e \in BOOLEAN : DlRead(Client, e)
  \/ \E id \in ChunkedIds, tok \in (1..minted) \cup {NoToken}, e \in BOOLEAN :
       Finalize(id, tok, e)
  \/ cleanup_download_tokens
  \/ Advance(ChunkClockEnd)

SpecFinalize == Init /\ [][NextFinalize]_vars

\* No secret has been stored so far.
StoreIsFresh == noteUsed = {} /\ fileUsed = {}

\* The indexes, totals and base IVs chunk uploads carry.
UploadIndexes == {-1, 0, 2}
UploadTotals == {1, 2}

\* A chunked file of two chunks is created and callers, numbered in their
\* order of arrival, post chunks to it while it expires.
NextUpload ==
  \/ \E id \in FileIds, e \in FileExpiryChoices : FileInitChunked(id, 2, e, Null, Null, Null)
  \/ \E c \in Callers :
       /\ ureq[c].pc = "idle"
       /\ \A d \in Callers : d < c => ureq[d].pc # "idle"
       /\ \E id \in FileIds, i \in UploadIndexes, n \in UploadTotals,
             iv \in IvChoices \cup {Null}, b \in Bodies, a \in BOOLEAN :
            UpStart(c, id, i, n, iv, b, a)
  \/ \E c \in Callers, e \in BOOLEAN : UpUpdate(c, e)
  \/ \E c \in Callers, e \in BOOLEAN : UpList(c, e)
  \/ \E c \in Callers, e \in BOOLEAN : UpUpload(c, e)
  \/ Tick

SpecUpload == Init /\ [][NextUpload]_vars

\* One browser uploads a chunked file: init-chunked, then the workers of
\* encryptAndUploadInChunks and the server working on their requests, while
\* time passes and the sweeper runs.
NextUploadFlow ==
  \/ \E id \in FileIds, e \in FileExpiryChoices : FileInitChunked(id, 2, e, Null, Null, Null)
  \/ \E id \in FileIds, iv \in IvChoices, n \in UploadTotals : UploadBegin(id, iv, n)
  \/ \E c \in UploadWorkers, a \in BOOLEAN : UploadSend(c, a)
  \/ \E c \in UploadWorkers, e \in BOOLEAN : UpUpdate(c, e)
  \/ \E c \in UploadWorkers, e \in BOOLEAN : UpList(c, e)
  \/ \E c \in UploadWorkers, e \in BOOLEAN : UpUpload(c, e)
  \/ \E c \in UploadWorkers, lost \in BOOLEAN : UploadRecv(c, lost)
  \/ cleanup_expired_files
  \/ Tick

SpecUploadFlow == Init /\ [][NextUploadFlow]_vars

\* The same, with every request of the browser eventually sent, worked on
\* by the server and answered: fetch settles, and a timer that was set
\* fires.
SpecUploadLive ==
  /\ SpecUploadFlow
  /\ \A c \in UploadWorkers :
       /\ WF_vars(\E a \in BOOLEAN : UploadSend(c, a))
       /\ WF_vars(\E e \in BOOLEAN : UpUpdate(c, e))
       /\ WF_vars(\E e \in BOOLEAN : UpList(c, e))
       /\ WF_vars(\E e \in BOOLEAN : UpUpload(c, e))
       /\ WF_vars(\E lost \in BOOLEAN : UploadRecv(c, lost))

\* Clients of any kind post to init-chunked, while time passes and the
\* sweeper runs.
NextInit ==
  \/ \E id \in FileIds, fs \in InitSizes, cb \in InitChunkBytes, tc \in InitTotals,
        e \in FileExpiryChoices, a \in BOOLEAN, dbe \in BOOLEAN, ue \in BOOLEAN :
       InitChunked(id, fs, cb, tc, e, a, dbe, ue)
  \/ cleanup_expired_files
  \/ Tick

SpecInit == Init /\ [][NextInit]_vars

\* Requests of two addresses to two endpoints go through the limiter one
\* after the other, with backend failures, while the clock runs past a
\* window.
NextRate ==
  \/ \E ip \in Ips, ep \in Endpoints, f \in Faults : RateLimit(ip, ep, f)
  \/ RateRespond
  \/ Advance(RateClockEnd)

SpecRate == Init /\ [][NextRate]_vars

\* Clients of any kind post to /api/notes, while time passes and the sweeper
\* runs.
NextCreate ==
  \/ \E id \in NoteIds, c \in BOOLEAN, v \in CreateViews, n \in BOOLEAN,
        e \in CreateExpiresIn, p \in {Null} \cup Passphrases, a \in BOOLEAN,
        dbe \in BOOLEAN :
       NotePost(id, c, v, n, e, p, a, dbe)
  \/ cleanup_expired_notes
  \/ Tick

SpecCreate == Init /\ [][NextCreate]_vars

\* Whole files are uploaded one request after the other, with storage and
\* database failures, while time passes and the sweeper runs.
NextWhole ==
  \/ \E id \in ChunkedIds, f \in WholeForms, n \in WholeSizes, e \in FileExpiryChoices,
        a \in BOOLEAN : WholeStart(id, f, n, e, a)
  \/ \E e \in BOOLEAN : WholeStore(e)
  \/ \E e \in BOOLEAN : WholeInsert(e)
  \/ \E e \in BOOLEAN : WholeRemove(e)
  \/ cleanup_expired_files
  \/ Tick

SpecWhole == Init /\ [][NextWhole]_vars

\* ------------------------------------------- what the handlers answer with
\* POST /api/notes/[id]/fetch: the body sent with each status.
NoteFetchBody(status) ==
  CASE status = 429 -> "Rate limit exceeded"
    [] status = 400 -> "Invalid note ID format"
    [] status = 500 -> "Database error"
    [] status = 404 -> "Note not found, expired, or already viewed"
    [] OTHER -> "ciphertext, iv"
NoteFetchResponse(r) == [status |-> r.status, body |-> NoteFetchBody(r.status)]

\* POST /api/files/[id]/download: the body sent with each status, by the
\* point the handler had reached. A 401 after the token was consumed is
\* the first body when the function returned no file and the second when
\* it returned another file than the one asked for.
DownloadBody(how, status) ==
  CASE status = 429 -> "Rate limit exceeded"
    [] status = 400 /\ how = "none" -> "Download token is required"
    [] status = 400 -> "Use chunk endpoint for chunked files"
    [] status = 401 /\ how \in {"snapshot", "recheck", "raised"} ->
         "Invalid or expired download token"
    [] status = 401 -> "Invalid or expired download token | Token file ID mismatch"
    [] status = 404 -> "File not found in storage"
    [] OTHER -> "bytes"
DownloadResponse(r) == [status |-> r.status, body |-> DownloadBody(r.how, r.status)]

\* ------------------------------------------- the sweeper's blob removal
\* The cleanup script the handlers' comments refer to is not among the
\* sources; what follows is the sweeper of the specification: next to
\* cleanup_expired_files, which deletes the expired rows, it lists the
\* bucket and removes the objects no row stands for.
HasRecord(path) ==
  /\ path[2] \in DOMAIN files
  /\ path[1] = "part" \/ files[path[2]].storage_path = path

\* Variant: a sweeper that removes no object.
SweepBlobs_Nothing(removeError) ==
  /\ \E path \in DOMAIN blobs : ~HasRecord(path)
  /\ UNCHANGED vars

SweepBlobs(removeError) ==
  LET orphans == {path \in DOMAIN blobs : ~HasRecord(path)}
  IN
  /\ orphans # {}
  /\ blobs' = IF removeError THEN blobs ELSE RemoveObjects(blobs, orphans)
  /\ UNCHANGED <<now, files, fileUsed, tokens, minted, dreq, delivered, tokenServed>>
  /\ UNCHANGED outsideFiles

\* One file, whole or chunked, is uploaded, downloaded or finalized with
\* storage and database failures at every call, or abandoned at any
\* point, while the clock runs past its expiry and the sweeper runs.
NextSweep ==
  \/ \E id \in FileIds, e \in FileExpiryChoices : WholeStart(id, "complete", 1, e, TRUE)
  \/ \E e \in BOOLEAN : WholeStore(e)
  \/ \E e \in BOOLEAN : WholeInsert(e)
  \/ \E e \in BOOLEAN : WholeRemove(e)
  \/ \E id \in FileIds, e \in FileExpiryChoices :
       wreq.pc = "idle" /\ FileInitChunked(id, 2, e, Null, Null, Null)
  \/ \E id \in FileIds, i \in {0, 1} : ChunkUpload(id, i, 2)
  \/ \E id \in FileIds : FileMeta(id)
  \/ \E id \in FileIds, tok \in 1..minted : DlStart(Client, id, tok, TRUE)
  \/ DlConsume(Client)
  \/ \E e \in BOOLEAN : DlRead(Client, e)
  \/ \E e \in BOOLEAN : DlRemove(Client, e)
  \/ \E e \in BOOLEAN : DlDelete(Client, e)
  \/ \E id \in FileIds, tok \in 1..minted, e \in BOOLEAN : Finalize(id, tok, e)
  \/ cleanup_expired_files
  \/ \E e \in BOOLEAN : SweepBlobs(e)
  \/ Advance(ChunkClockEnd)

\* The clock runs, and the sweeper keeps running and its calls do not fail
\* for ever.
SpecSweep ==
  /\ Init /\ [][NextSweep]_vars
  /\ WF_vars(Advance(ChunkClockEnd))
  /\ WF_vars(cleanup_expired_files)
  /\ WF_vars(SweepBlobs(FALSE))

\* A note or a whole file is created, read until it is gone, and asked for
\* again, also with ids and tokens that were never given out, while the
\* clock runs and the sweepers run.
GoneCallers == {1, 2}

NextGone ==
  \/ \E id \in NoteIds, views \in 1..MaxViews, e \in ExpiresInChoices :
       StoreIsFresh /\ NoteCreate(id, views, e, Null, Null, Null)
  \/ \E c \in GoneCallers, id \in NoteIds : FetchStart(c, id, TRUE, FALSE)
  \/ \E c \in GoneCallers : FetchLock(c)
  \/ \E c \in GoneCallers : FetchUpdate(c)
  \/ cleanup_expired_notes
  \/ \E id \in FileIds, e \in ChunkExpiryChoices :
       StoreIsFresh /\ FileUpload(id, e, Null, Null, Null)
  \/ \E id \in FileIds : FileMeta(id)
  \/ \E c \in GoneCallers, id \in FileIds, tok \in 1..(minted + 1) : DlStart(c, id, tok, TRUE)
  \/ \E c \in GoneCallers : DlConsume(c)
  \/ \E c \in GoneCallers : DlRead(c, FALSE)
  \/ \E c \in GoneCallers, e \in BOOLEAN : DlRemove(c, e)
  \/ \E c \in GoneCallers, e \in BOOLEAN : DlDelete(c, e)
  \/ cleanup_expired_files
  \/ cleanup_download_tokens
  \/ Advance(ChunkClockEnd)

SpecGone == Init /\ [][NextGone]_vars

\* Files are created, deleted by finalize or by the sweeper, and expire,
\* while metadata requests are answered one after the other.
NextMeta ==
  \/ \E id \in FileIds, e \in FileExpiryChoices : FileUpload(id, e, Null, Null, Null)
  \/ \E id \in FileIds, n \in ChunkTotals, e \in FileExpiryChoices :
       FileInitChunked(id, n, e, Null, Null, Null)
  \/ \E id \in FileIds \cup {OtherFileId} : MetaSelect(id)
  \/ MetaGenerate
  \/ \E id \in FileIds, tok \in 1..minted, e \in BOOLEAN : Finalize(id, tok, e)
  \/ cleanup_expired_files
  \/ Tick

SpecMeta == Init /\ [][NextMeta]_vars

\* The three handlers that hand out encrypted bytes, next to the clock and
\* the sweepers: /fetch on a note, /download on a whole file by one caller,
\* and the chunk download on a chunked file. The store is followed for one
\* secret: notes and files live in tables of their own and no handler
\* touches both.
NextLive ==
  \/ \E id \in NoteIds, views \in 1..MaxViews, e \in ExpiresInChoices :
       StoreIsFresh /\ NoteCreate(id, views, e, Null, Null, Null)
  \/ \E c \in Callers, id \in NoteIds : FetchStart(c, id, TRUE, FALSE)
  \/ \E c \in Callers : FetchLock(c)
  \/ \E c \in Callers : FetchUpdate(c)
  \/ cleanup_expired_notes
  \/ \E id \in FileIds, e \in ChunkExpiryChoices :
       StoreIsFresh /\ FileUpload(id, e, Null, Null, Null)
  \/ \E id \in FileIds, e \in ChunkExpiryChoices :
       StoreIsFresh /\ FileInitChunked(id, 2, e, Null, Null, Null)
  \/ \E id \in FileIds : ChunkUpload(id, 0, 2)
  \/ \E id \in FileIds : FileMeta(id)
  \/ \E id \in FileIds \cup {OtherFileId}, tok \in 1..minted : DlStart(Client, id, tok, TRUE)
  \/ DlConsume(Client)
  \/ DlRead(Client, FALSE)
  \/ \E e \in BOOLEAN : DlRemove(Client, e)
  \/ \E e \in BOOLEAN : DlDelete(Client, e)
  \/ \E id \in FileIds \cup {OtherFileId}, tok \in 1..minted : ChunkGet(id, 0, tok, FALSE)
  \/ cleanup_expired_files
  \/ cleanup_download_tokens
  \/ Advance(ChunkClockEnd)

SpecLive == Init /\ [][NextLive]_vars

\* ------------------------------------------------------- claims on files

\* C7: of the download_whole requests that present one and the same
\* single-use token, at most one consumes the token, only a request that
\* consumed it is sent the bytes, and every request that did not consume it
\* is answered 401.
C7_SingleUseSerializable ==
  \A c1, c2 \in Callers :
    (c1 # c2 /\ dreq[c1].token # NoToken /\ dreq[c1].token = dreq[c2].token) =>
      /\ ~(dreq[c1].how = "consumed" /\ dreq[c2].how = "consumed")
      /\ (dreq[c1].pc = "done" /\ dreq[c1].how # "consumed") => dreq[c1].status = 401
      /\ dreq[c1].status = 200 => dreq[c1].how = "consumed"

\* Two requests with one token, both past the snapshot of an unused token:
\* one was sent the bytes, the other was refused after its lock wait.
C7_Witness ==
  \E c1, c2 \in Callers :
    /\ c1 # c2
    /\ dreq[c1].token = dreq[c2].token
    /\ dreq[c1].pc = "done" /\ dreq[c1].how = "consumed" /\ dreq[c1].status = 200
    /\ dreq[c2].pc = "done" /\ dreq[c2].how = "recheck" /\ dreq[c2].status = 401

\* C8: a whole file is sent to at most one reader, over all its tokens and
\* all interleavings of /download requests.
C8_AtMostOneReader == \A f \in FileIds : delivered[f] <= 1

C10_UsedMeansServed ==
  \A t \in DOMAIN tokens :
    (tokens[t].used /\ \A c \in Callers : dreq[c].token = t => dreq[c].pc = "done")
      => t \in tokenServed

\* ------------------------------------------- claims on the reveal flows

\* C6: once validate-passphrase has answered valid = false, the reveal flow
\* has issued no /fetch, /download, chunk-download or /finalize request, no
\* request of the browser is with the server, no view has been taken from
\* any note, no download token is used and nothing was delivered.
C6_InvalidPassphraseSpendsNothing ==
  flow.valid = "no" =>
    /\ flow.sent = {}
    /\ nreq[Client].pc = "idle" /\ dreq[Client].pc = "idle"
    /\ \A n \in DOMAIN notes : notes[n].views_left = initial_views[n]
    /\ \A t \in 1..minted : t \in DOMAIN tokens /\ tokens[t].used = FALSE
    /\ \A f \in DOMAIN delivered : delivered[f] = 0

\* A wrong passphrase typed for a file: validation drew a token, answered
\* valid = false, and the flow threw INVALID_PASSPHRASE.
C6_Witness ==
  /\ flow.kind = "file" /\ flow.passphrase = "wrong"
  /\ flow.valid = "no"
  /\ flow.pc = "thrown" /\ flow.outcome = "INVALID_PASSPHRASE"
  /\ minted >= 1

\* ------------------------------------------------------- claims on notes
FetchDone(c, id) == nreq[c].pc = "done" /\ nreq[c].id = id /\ nreq[c].status \in {200, 404}

\* Two /fetch requests whose burn_and_fetch_note statements both started
\* while the note had views_left = 1, no third one did, both have returned
\* and the note has not expired.
TwoConcurrentBurns(c1, c2, id) ==
  /\ c1 # c2
  /\ FetchDone(c1, id) /\ FetchDone(c2, id)
  /\ nreq[c1].snapViews = 1 /\ nreq[c2].snapViews = 1
  /\ \A c3 \in Callers \ {c1, c2} : ~(nreq[c3].id = id /\ nreq[c3].snapViews = 1)
  /\ id \in DOMAIN notes
  /\ now <= notes[id].expires_at

\* C1: two concurrent burn_and_fetch_note calls on a live note with
\* views_left = 1: exactly one returns the ciphertext, the other returns no
\* row (404), and views_left ends at 0.
C1_ExactlyOneBurn ==
  \A id \in NoteIds : \A c1, c2 \in Callers :
    TwoConcurrentBurns(c1, c2, id) =>
      /\ (nreq[c1].status = 200) # (nreq[c2].status = 200)
      /\ {nreq[c1].status, nreq[c2].status} = {200, 404}
      /\ notes[id].views_left = 0

C1_Witness ==
  \E id \in NoteIds : \E c1, c2 \in Callers :
    TwoConcurrentBurns(c1, c2, id) /\ nreq[c1].status = 200 /\ nreq[c2].status = 404

\* C2: for a note created with views = v, the number of /fetch responses
\* that carry the ciphertext is at most v, whatever fetch, meta,
\* validate-passphrase and sweep operations are interleaved.
C2_AtMostViewsReads ==
  \A id \in NoteIds : served[id] <= initial_views[id]

C2_Witness ==
  \E id \in NoteIds : \E c \in Callers :
    /\ initial_views[id] >= 1
    /\ served[id] = initial_views[id]
    /\ nreq[c].pc = "done" /\ nreq[c].id = id /\ nreq[c].status = 404
    /\ id \in DOMAIN notes /\ now <= notes[id].expires_at

\* C3: every note has 0 <= views_left <= initial_views.
C3_ViewsLeftInRange ==
  \A id \in DOMAIN notes :
    0 <= notes[id].views_left /\ notes[id].views_left <= initial_views[id]

C3_Witness ==
  \E id \in DOMAIN notes :
    /\ notes[id].views_left = 0
    /\ initial_views[id] = MaxViews
    /\ served[id] = MaxViews

\* C4: once a successful burn has taken views_left to 0 (the final
\* successful read), the note row and its ciphertext are no longer in the
\* store.
C4_BurnedNoteIsGone ==
  \A id \in NoteIds :
    (initial_views[id] >= 1 /\ served[id] = initial_views[id]) => id \notin DOMAIN notes

\* C5: note meta and validate_note_passphrase never consume a view: every
\* step of either, for any id and any provided hash, leaves every note (and
\* every row lock) as it was.
C5_ProbesNeverBurn ==
  [][ ( \/ \E id \in NoteIds \cup {BadId}, a \in BOOLEAN : NoteMeta(id, a)
        \/ \E id \in NoteIds \cup {BadId}, h \in Hashes, a \in BOOLEAN : NoteValidate(id, h, a) )
      => (notes' = notes /\ noteLock' = noteLock /\ served' = served) ]_vars

C5_Witness ==
  \E id \in DOMAIN notes :
    /\ probe.op = "validate" /\ probe.status = 200 /\ ~probe.valid
    /\ notes[id].passphrase_hash # NoHash
    /\ notes[id].views_left = initial_views[id]
    /\ now <= notes[id].expires_at
\* ------------------------------------------- claims on chunked downloads

\* C13: a chunk download changes no state: no row of files or of
\* download_tokens and no object is changed by it, and a chunk download that
\* follows a successful one with the same token, while the token's row and
\* the file's row are there and unexpired, is not refused as unauthorised.
C13_ChunkGetWritesNothing ==
  [][(answer' # answer /\ answer'.op = "chunk") =>
       /\ UNCHANGED <<files, tokens, blobs>>
       /\ ( /\ answer.op = "chunk" /\ answer.status = 200
            /\ answer'.token = answer.token /\ answer'.id = answer.id
            /\ answer.token \in DOMAIN tokens /\ now <= tokens[answer.token].expires_at
            /\ answer.id \in DOMAIN files /\ now <= files[answer.id].expires_at )
           => answer'.status # 401]_vars

\* Two chunk downloads in a row were served with one token.
C13_Witness == answer.op = "chunk" /\ answer.again

\* C14: once finalize_chunked_download has succeeded for a file, the file's
\* row and every token row of the file are gone, and every chunk download
\* for the file that arrives later with a token is answered 401.
C14_FinalizedFileIsGone ==
  /\ \A id \in finalized :
        /\ id \notin DOMAIN files
        /\ \A t \in DOMAIN tokens : tokens[t].file_id # id
  /\ (answer.op = "chunk" /\ answer.after /\ answer.token # NoToken) => answer.status = 401

\* A chunk download arrived after its file was finalized, with a token.
C14_Witness ==
  /\ answer.op = "chunk" /\ answer.after /\ answer.token # NoToken
  /\ answer.id \in finalized /\ minted >= 2

\* C15: a finalize, with a token, for a file that was created and whose row
\* is no longer there (finalized before, or swept) changes no row and no
\* object and is answered 200 with success = true.
C15_FinalizeIdempotent ==
  [][(/\ answer' # answer /\ answer'.op = "finalize" /\ answer'.token # NoToken
      /\ answer'.id \in fileUsed /\ answer'.id \notin DOMAIN files) =>
       /\ UNCHANGED <<files, tokens, blobs>>
       /\ answer'.status = 200 /\ answer'.success]_vars

\* A finalize was answered for a file that had been finalized before.
C15_Witness == answer.op = "finalize" /\ answer.after /\ answer.status = 200 /\ answer.success
\* C16: a finalize whose token is unknown, expired, already used, single-use
\* or issued for another file changes no row of files or of download_tokens
\* and no object.
C16_FinalizeFailsClosed ==
  [][\A id \in ChunkedIds, tok \in Tokens :
       ( /\ answer' # answer /\ answer'.op = "finalize"
         /\ answer'.id = id /\ answer'.token = tok
         /\ \/ tok \notin DOMAIN tokens
            \/ now > tokens[tok].expires_at
            \/ tokens[tok].used
            \/ ~tokens[tok].is_multi_use
            \/ tokens[tok].file_id # id )
       => UNCHANGED <<files, tokens, blobs>>]_vars

\* Finalize was asked for an existing file with a token that has no row.
C16_WitnessUnknown ==
  /\ answer.op = "finalize" /\ answer.id \in DOMAIN files /\ answer.token # NoToken
  /\ answer.token \notin DOMAIN tokens

\* ... with the file's own multi-use token after the token expired.
C16_WitnessExpired ==
  /\ answer.op = "finalize" /\ answer.id \in DOMAIN files /\ answer.token \in DOMAIN tokens
  /\ tokens[answer.token].file_id = answer.id /\ tokens[answer.token].is_multi_use
  /\ now > tokens[answer.token].expires_at /\ now <= files[answer.id].expires_at

\* ... with the file's own token after /download spent it.
C16_WitnessUsed ==
  /\ answer.op = "finalize" /\ answer.id \in DOMAIN files /\ answer.token \in DOMAIN tokens
  /\ tokens[answer.token].file_id = answer.id /\ tokens[answer.token].used

\* ... with the file's own unspent single-use token.
C16_WitnessSingle ==
  /\ answer.op = "finalize" /\ answer.id \in DOMAIN files /\ answer.token \in DOMAIN tokens
  /\ tokens[answer.token].file_id = answer.id /\ ~tokens[answer.token].used
  /\ ~tokens[answer.token].is_multi_use /\ now <= tokens[answer.token].expires_at

\* ... with a live multi-use token of the other file, while the asked file
\* is live and has a chunk in the bucket.
C16_WitnessOther ==
  /\ answer.op = "finalize" /\ answer.id \in DOMAIN files /\ answer.token \in DOMAIN tokens
  /\ tokens[answer.token].file_id # answer.id /\ ~tokens[answer.token].used
  /\ tokens[answer.token].is_multi_use /\ now <= tokens[answer.token].expires_at
  /\ now <= files[answer.id].expires_at /\ ChunkPath(answer.id, 0) \in DOMAIN blobs
\* ------------------------------------------- claims on live records

\* The place of a /download request on its way to the 200 response.
DlRank(r) ==
  IF r.pc = "read" THEN 1 ELSE IF r.pc = "remove" THEN 2 ELSE IF r.pc = "delete" THEN 3
  ELSE IF r.pc = "done" /\ r.status = 200 THEN 4 ELSE 0

\* C11: encrypted bytes leave the store only for live records and valid
\* tokens, swept or not. burn_and_fetch_note hands the ciphertext to a request
\* only if, at the NOW() of its transaction, the note's row is there with
\* NOW() <= expires_at and views_left > 0. /download gets to read the object
\* only from consume_download_token, and only if the token's row is there,
\* unused, of the file in the URL, with NOW() <= its expires_at and
\* NOW() <= the file's expires_at. A chunk download answers 200 only if the
\* same holds of its token and file at the time of the request.
C11_BytesOnlyForLive ==
  [][/\ \A c \in Callers :
          /\ (nreq'[c].pc = "locked" /\ nreq[c].pc # "locked") =>
                /\ nreq[c].pc = "wait"
                /\ nreq[c].id \in DOMAIN notes
                /\ nreq[c].txNow <= notes[nreq[c].id].expires_at
                /\ notes[nreq[c].id].views_left > 0
          /\ (nreq'[c].status = 200 /\ nreq[c].status # 200) => nreq[c].pc = "locked"
          /\ (DlRank(dreq'[c]) = 1 /\ DlRank(dreq[c]) # 1) =>
                /\ dreq[c].pc = "wait"
                /\ dreq[c].token \in DOMAIN tokens
                /\ tokens[dreq[c].token].file_id = dreq[c].id
                /\ tokens[dreq[c].token].used = FALSE
                /\ dreq[c].txNow <= tokens[dreq[c].token].expires_at
                /\ dreq[c].id \in DOMAIN files
                /\ dreq[c].txNow <= files[dreq[c].id].expires_at
          /\ DlRank(dreq'[c]) > 1 => DlRank(dreq[c]) >= DlRank(dreq'[c]) - 1
     /\ (answer' # answer /\ answer'.op = "chunk" /\ answer'.status = 200) =>
          /\ answer'.token \in DOMAIN tokens
          /\ tokens[answer'.token].file_id = answer'.id
          /\ tokens[answer'.token].used = FALSE
          /\ now <= tokens[answer'.token].expires_at
          /\ answer'.id \in DOMAIN files
          /\ now <= files[answer'.id].expires_at]_vars

\* A chunk download was refused for an expired file whose row the sweeper
\* had not removed, with the file's own token, unused and unexpired.
C11_Witness ==
  /\ answer.op = "chunk" /\ answer.status = 401
  /\ answer.token \in DOMAIN tokens /\ answer.id \in DOMAIN files
  /\ tokens[answer.token].file_id = answer.id
  /\ tokens[answer.token].used = FALSE
  /\ now <= tokens[answer.token].expires_at
  /\ files[answer.id].expires_at < now

\* A note was served, a whole file was served, and a chunk was served.
C11_NoteServed == \E c \in Callers : nreq[c].status = 200
C11_FileServed == dreq[Client].status = 200
C11_ChunkServed == answer.op = "chunk" /\ answer.status = 200
\* A fetch was refused for an expired note that is still in the table.
C11_NoteRefusedUnswept ==
  \E c \in Callers : /\ nreq[c].status = 404 /\ nreq[c].id \in DOMAIN notes
                      /\ notes[nreq[c].id].views_left > 0
\* ------------------------------------------- claims on file metadata

\* C12: a metadata request for a live file (its row is there and
\* now <= expires_at) is answered 200 with a fresh token, single-use and
\* expiring SingleUseTTL after it was drawn when total_chunks = 1, multi-use
\* and expiring MultiUseTTL after it was drawn otherwise; a request for a
\* missing or expired file is answered 404 and draws no token.
C12_MetaMintsByChunks ==
  mreq.pc = "done" =>
    IF mreq.live
      THEN /\ mreq.status = 200
           /\ mreq.token # NoToken
           /\ mreq.multi = (mreq.chunks # 1)
           /\ mreq.expires_at = mreq.at + (IF mreq.chunks = 1 THEN SingleUseTTL ELSE MultiUseTTL)
      ELSE mreq.status = 404 /\ mreq.token = NoToken

\* Whenever a token is handed out, its kind and lifetime follow total_chunks.
C12_KindFollowsChunks ==
  (mreq.pc = "done" /\ mreq.status = 200) =>
     /\ mreq.token # NoToken
     /\ mreq.multi = (mreq.chunks # 1)
     /\ mreq.expires_at = mreq.at + (IF mreq.chunks = 1 THEN SingleUseTTL ELSE MultiUseTTL)

\* A metadata request was answered 500: the file went away after the select.
C12_Answered500 == mreq.status = 500
\* ------------------------------------------- claims on chunk uploads

C18_ExistingObjectIsKept ==
  [][/\ \A p \in DOMAIN blobs : p \in DOMAIN blobs' => blobs'[p] = blobs[p]
     /\ \A c \in Callers :
          ( /\ ureq[c].pc = "list" /\ ureq'[c].pc # "list"
            /\ ChunkPath(ureq[c].id, ureq[c].index) \in DOMAIN blobs
            /\ ureq'[c].cause # "storage" ) =>
          (ureq'[c].status = 200 /\ blobs' = blobs)]_vars

\* An upload was answered ok for an object that holds another body.
C18_Witness ==
  \E c \in Callers :
    /\ ureq[c].status = 200 /\ ureq[c].cause = "exists"
    /\ blobs[ChunkPath(ureq[c].id, ureq[c].index)] # ureq[c].body

\* C19: of two chunk uploads for one file and index that both passed the
\* checks and met no storage or database failure, both are answered ok.
C19_BothUploadsSucceed ==
  \A c, d \in Callers :
    ( /\ c # d
      /\ ureq[c].pc = "done" /\ ureq[d].pc = "done"
      /\ ureq[c].id = ureq[d].id /\ ureq[c].index = ureq[d].index
      /\ ureq[c].cause \in {"created", "exists", "duplicate"}
      /\ ureq[d].cause \in {"created", "exists", "duplicate"} )
    => (ureq[c].status = 200 /\ ureq[d].status = 200)
\* C20: when encryptAndUploadInChunks has completed, the file's row, as long
\* as it is there, holds the base IV the browser drew and not the empty
\* placeholder.
C20_IvBaseStoredOnCompletion ==
  (up.pc = "done" /\ up.id \in DOMAIN files) =>
     /\ files[up.id].iv_base_b64u # EmptyIv
     /\ files[up.id].iv_base_b64u = up.ivBase

\* An upload completed after chunk 0 had to be sent again, and the row is there.
C20_Witness ==
  /\ up.pc = "done" /\ up.id \in DOMAIN files
  /\ up.attempt[1] > 1 /\ up.ivBase = "iv2"

\* C21: when encryptAndUploadInChunks has completed, the objects stored
\* under the file's prefix are exactly the parts 0..total_chunks-1, one per
\* index, whatever order the workers ran in and whatever was sent again.
C21_AllChunksStored ==
  up.pc = "done" =>
     /\ {p \in DOMAIN blobs : p[2] = up.id} = ChunkPaths(up.id, up.total)
     /\ Cardinality({p \in DOMAIN blobs : p[2] = up.id}) = up.total
     /\ up.id \in DOMAIN files => files[up.id].total_chunks = up.total

\* An upload completed although the second worker had to send its chunk
\* again and found the object of its first attempt.
C21_Witness ==
  /\ up.pc = "done" /\ up.total = 2
  /\ up.attempt[2] > 1
  /\ DOMAIN blobs = ChunkPaths(up.id, 2)

\* C22: every file record with total_chunks > 1 that init-chunked accepted
\* has total_chunks = ceil(size_bytes / chunk_bytes) and a chunk_bytes
\* between 1 MiB and 4 MiB.
C22_TotalChunksIsCeil ==
  \A id \in DOMAIN files :
    files[id].total_chunks > 1 =>
       /\ files[id].chunk_bytes >= minChunkSize
       /\ files[id].chunk_bytes <= maxChunkSize
       /\ files[id].total_chunks = Ceil(files[id].size_bytes, files[id].chunk_bytes)

\* The part of C22 the handler does check: the chunk size of an accepted
\* record is between 1 MiB and 4 MiB and its size at most 500 MB.
C22_ChunkBytesInRange ==
  \A id \in DOMAIN files :
     /\ files[id].chunk_bytes >= minChunkSize
     /\ files[id].chunk_bytes <= maxChunkSize
     /\ files[id].size_bytes <= maxSize

\* The step in which POST /api/files/upload answers.
WholeAnswers == wreq.pc # "done" /\ wreq'.pc = "done"

\* C23: when POST /api/files/upload answers after the blob was written and
\* the metadata insert failed, neither a file record nor the blob exists;
\* when it answers with success, both the blob and its record exist.
C23_CompensatesOnMetadataFailure ==
  [][ WholeAnswers =>
        /\ wreq'.cause = "metadata" =>
              /\ wreq'.status = 500
              /\ wreq.id \notin DOMAIN files'
              /\ StoragePath(wreq.id) \notin DOMAIN blobs'
        /\ wreq'.status = 200 =>
              /\ wreq.id \in DOMAIN files'
              /\ StoragePath(wreq.id) \in DOMAIN blobs' ]_vars

\* The parts of C23 that hold: a success leaves both the record and the
\* blob, and an answer after a failed insert is an error with no record.
C23_SuccessHasBoth ==
  [][ WholeAnswers =>
        /\ wreq'.status = 200 =>
              /\ wreq.id \in DOMAIN files'
              /\ files'[wreq.id].storage_path = StoragePath(wreq.id)
              /\ StoragePath(wreq.id) \in DOMAIN blobs'
        /\ wreq'.cause = "metadata" =>
              /\ wreq'.status = 500
              /\ wreq.id \notin DOMAIN files' ]_vars

\* C24: every note POST /api/notes created has
\* created_at <= expires_at <= created_at + 60 days.
C24_ExpiryWithinHorizon ==
  \A id \in DOMAIN notes :
     /\ notes[id].created_at <= notes[id].expires_at
     /\ notes[id].expires_at <= notes[id].created_at + MaxExpiration

\* The part of C24 that holds: no note expires later than 60 days after
\* its creation.
C24_ExpiryAtMostSixtyDays ==
  \A id \in DOMAIN notes :
     notes[id].expires_at <= notes[id].created_at + MaxExpiration

\* The rows of a key that are not older than W at the instant t.
EntriesSince(rows, t) == SelectSeq(rows, LAMBDA e : e.timestamp >= t - windowMs)

\* The step in which rateLimit is called, and the one in which the handler
\* answers on its result.
RateCalled == rreq.pc # "limited" /\ rreq'.pc = "limited"
RateAnswered == rreq.pc = "limited" /\ rreq'.pc = "done"

\* C25: of sequential requests, one that meets no backend error is
\* rejected, with 429 and without a row being inserted, exactly when at
\* least maxRequests rows of its address are not older than the window;
\* otherwise it is admitted and exactly one row, stamped now, is inserted.
C25_SlidingWindowAdmission ==
  [][ /\ (RateCalled /\ rreq'.error = Null) =>
            LET ip == rreq'.ip
                before == EntriesSince(rate_limits[ip], rreq'.at)
                after == EntriesSince(rate_limits'[ip], rreq'.at)
            IN /\ ~rreq'.success <=> Len(before) >= maxRequests(rreq'.endpoint)
               /\ ~rreq'.success => after = before
               /\ rreq'.success => after = Append(before, [timestamp |-> rreq'.at])
               /\ \A other \in Ips \ {ip} : rate_limits'[other] = rate_limits[other]
      /\ RateAnswered => (rreq'.status = 429 <=> ~rreq.success) ]_vars

\* A POST /api/notes is admitted at an instant when the maxRequests rows of
\* its address, which had the address rejected before, have aged out.
C25_Witness ==
  /\ rreq.pc = "done" /\ rreq.endpoint = "createNote"
  /\ rreq.status = 200 /\ rreq.error = Null /\ rreq.count = 0
  /\ Len(rate_limits[rreq.ip]) = CreateNoteMaxRequests + 1
  /\ rate_limits[rreq.ip][CreateNoteMaxRequests].timestamp < rreq.at - windowMs

\* The request after maxRequests admitted ones within the window is
\* answered 429.
C25_WitnessRejected ==
  /\ rreq.pc = "done" /\ rreq.endpoint = "createNote"
  /\ rreq.status = 429 /\ rreq.count = CreateNoteMaxRequests
  /\ Len(rate_limits[rreq.ip]) = CreateNoteMaxRequests

\* Whether a request of ip to endpoint, made at the instant t with no
\* backend error, is rejected, given the table.
WouldReject(tbl, ip, endpoint, t) ==
  Len(EntriesSince(tbl[ip], t)) >= maxRequests(endpoint)

\* C26: a request an address makes to one endpoint does not count against
\* its limit on another: whether a POST /api/notes of that address is
\* rejected is the same before and after one of its requests to
\* POST /api/notes/[id]/fetch went through the limiter.
C26_EndpointsAreIndependent ==
  [][ (RateCalled /\ rreq'.endpoint = "noteFetch") =>
         (WouldReject(rate_limits', rreq'.ip, "createNote", rreq'.at)
            <=> WouldReject(rate_limits, rreq'.ip, "createNote", rreq'.at)) ]_vars

\* The part of C26 that holds: a request of one address changes no row of
\* another address, and so not whether the other is rejected.
C26_AddressesAreIndependent ==
  [][ RateCalled =>
         \A other \in Ips \ {rreq'.ip}, ep \in Endpoints :
            /\ rate_limits'[other] = rate_limits[other]
            /\ WouldReject(rate_limits', other, ep, rreq'.at)
                  <=> WouldReject(rate_limits, other, ep, rreq'.at) ]_vars

\* C27: when the select or the insert of rateLimit returned an error, or
\* the check threw, the result is success with remaining = maxRequests - 1
\* and the handler does not answer 429; a rejection comes only from a
\* select that returned at least maxRequests rows.
C27_FailOpen ==
  /\ (rreq.pc # "idle" /\ rreq.error # Null) =>
        /\ rreq.success
        /\ rreq.remaining = maxRequests(rreq.endpoint) - 1
        /\ rreq.status # 429
  /\ (rreq.pc # "idle" /\ ~rreq.success) =>
        /\ rreq.error = Null
        /\ rreq.count >= maxRequests(rreq.endpoint)

\* The select failed for an address that had used up its limit, and the
\* request went through.
C27_Witness ==
  /\ rreq.pc = "done" /\ rreq.error = "select" /\ rreq.status = 200
  /\ Len(EntriesSince(rate_limits[rreq.ip], rreq.at)) >= maxRequests(rreq.endpoint)

\* The insert failed, and the request went through without a row.
C27_WitnessInsert ==
  /\ rreq.pc = "done" /\ rreq.error = "insert" /\ rreq.status = 200
  /\ Len(EntriesSince(rate_limits[rreq.ip], rreq.at)) = rreq.count

\* The seconds, rounded up, from the limiter's now until the oldest row in
\* the window of the rejected request ages out.
SecondsUntilOldestAgesOut ==
  Ceil(Head(EntriesSince(rate_limits[rreq.ip], rreq.at)).timestamp + windowMs - rreq.at, 1000)

\* C28: the Retry-After of every 429 is strictly greater than 0 and is the
\* number of seconds, rounded up, until the oldest row in the window ages
\* out: oldest.timestamp + W - now.
C28_RetryAfterUntilOldestAgesOut ==
  (rreq.pc = "done" /\ rreq.status = 429) =>
     /\ rreq.retryAfter > 0
     /\ rreq.retryAfter = SecondsUntilOldestAgesOut

\* The part of C28 that holds: POST /api/notes, when it answers in the
\* instant the limiter read the clock, sends that number of seconds.
C28_ComputedWhenImmediate ==
  (rreq.pc = "done" /\ rreq.status = 429 /\ rreq.endpoint = "createNote"
      /\ rreq.sentAt = rreq.at) =>
     /\ rreq.retryAfter >= 0
     /\ rreq.retryAfter = SecondsUntilOldestAgesOut

\* The paths objects are written under.
SweepPaths == {StoragePath(id) : id \in FileIds} \cup UNION {ChunkPaths(id, 2) : id \in FileIds}

C29_WitnessDownload ==
  \E id \in FileIds :
    /\ id \in fileUsed /\ id \notin DOMAIN files /\ StoragePath(id) \in DOMAIN blobs
    /\ delivered[id] > 0
C29_WitnessUpload ==
  /\ wreq.cause = "metadata" /\ StoragePath(wreq.id) \in DOMAIN blobs

\* The one answer of /fetch for a note that is not to be had, and the one
\* of /download for a token that is not to be used.
NoteGone == [status |-> 404, body |-> "Note not found, expired, or already viewed"]
TokenGone == [status |-> 401, body |-> "Invalid or expired download token"]

\* A well-formed note id that never existed or was swept, a burned note,
\* an expired note; a token never issued or swept, a used one, an expired one.
NoteIsGone(id) ==
  id \notin DOMAIN notes \/ notes[id].views_left = 0 \/ now > notes[id].expires_at
TokenIsGone(tok) ==
  tok \notin DOMAIN tokens \/ tokens[tok].used \/ now > tokens[tok].expires_at

\* C30: /fetch answers a request for a note that never existed, is burned
\* or has expired with one and the same status and body, and /download
\* answers a request with a token that was never issued, is used or has
\* expired with one and the same status and body.
C30_GoneIsUniform ==
  [][ /\ \A c \in Callers :
           (nreq[c].pc = "idle" /\ nreq'[c].pc # "idle" /\ NoteIsGone(nreq'[c].id)) =>
              /\ nreq'[c].pc = "done"
              /\ NoteFetchResponse(nreq'[c]) = NoteGone
      /\ \A c \in Callers :
           (dreq[c].pc = "idle" /\ dreq'[c].pc # "idle" /\ TokenIsGone(dreq'[c].token)) =>
              /\ dreq'[c].pc = "done"
              /\ DownloadResponse(dreq'[c]) = TokenGone ]_vars

\* One caller was refused a note that had never existed and another the
\* same note after it had expired; both hold the same answer.
C30_Witness ==
  \E c, d \in Callers :
    /\ nreq[c].pc = "done" /\ nreq[c].snapViews = -1
    /\ nreq[d].pc = "done" /\ nreq[d].snapViews > 0
    /\ NoteFetchResponse(nreq[c]) = NoteGone
    /\ NoteFetchResponse(nreq[d]) = NoteGone

\* A caller was refused a note another caller had burned.
C30_WitnessBurned ==
  \E c, d \in Callers :
    /\ nreq[c].pc = "done" /\ nreq[c].status = 200
    /\ nreq[d].pc = "done" /\ nreq[d].snapViews = 0
    /\ NoteFetchResponse(nreq[d]) = NoteGone

\* One caller was refused with a token that was never issued and another
\* with a token that had expired; both hold the same answer.
C30_WitnessTokens ==
  \E c, d \in Callers :
    /\ dreq[c].pc = "done" /\ dreq[c].token > minted
    /\ dreq[d].pc = "done" /\ dreq[d].token \in DOMAIN tokens
    /\ ~tokens[dreq[d].token].used /\ dreq[d].how = "snapshot"
    /\ DownloadResponse(dreq[c]) = TokenGone
    /\ DownloadResponse(dreq[d]) = TokenGone

\* A caller was refused with a token another caller had used.
C30_WitnessUsed ==
  \E c, d \in Callers :
    /\ dreq[c].pc = "done" /\ dreq[c].status = 200
    /\ dreq[d].pc = "done" /\ dreq[d].token = dreq[c].token
    /\ DownloadResponse(dreq[d]) = TokenGone

\* --------------------------------------------------------------- C31
\* A header of the request says it comes from another origin.
IndicatedCrossOrigin(m) ==
  \/ m.origin # NoHeader /\ m.origin # OwnOrigin
  \/ m.referer \notin {NoReferer, Malformed} /\ URLOrigin(m.referer) # OwnOrigin
  \/ m.secFetchSite = "cross-site"

StateChangingApiRequest(m) ==
  /\ m.result # "idle"
  /\ m.method \in STATE_CHANGING_METHODS
  /\ StartsWithApi(m.pathname)

\* C31: every POST, PUT, DELETE or PATCH to a path under /api/ whose Origin,
\* Referer or Sec-Fetch-Site header says it is cross-origin is answered 403
\* and is not handed to the route handler, whatever the three headers are.
C31_CrossOriginIsRefused ==
  (StateChangingApiRequest(mw) /\ IndicatedCrossOrigin(mw))
    => (mw.result = "refused" /\ mw.status = 403)

\* C31, what the code guarantees: a request with an Origin header of another
\* origin is refused unless it says Sec-Fetch-Site same-origin or none, and
\* no request is refused unless its Origin or its Referer names another origin.
C31_RefusedOnForeignOrigin ==
  /\ (/\ StateChangingApiRequest(mw)
      /\ mw.origin = ForeignOrigin
      /\ mw.secFetchSite \notin {"same-origin", "none"})
       => (mw.result = "refused" /\ mw.status = 403)
  /\ mw.result = "refused" =>
       (StateChangingApiRequest(mw) /\ IndicatedCrossOrigin(mw))

C31_Witness ==
  /\ StateChangingApiRequest(mw)
  /\ mw.origin = ForeignOrigin
  /\ mw.secFetchSite = "cross-site"
  /\ mw.result = "refused"

\* A cross-site POST without Origin and Referer that reached the handler.
C31_WitnessPassed ==
  /\ StateChangingApiRequest(mw)
  /\ mw.secFetchSite = "cross-site"
  /\ mw.origin = NoHeader
  /\ mw.referer = NoReferer
  /\ mw.result = "next"


\* --------------------------------------------------------------- C32
\* The chunk presented at position j (0-based) of the last download decrypted.
ChunkDecrypted(j) == gcm.chunks[j + 1] # OperationError

\* C32 as stated: the chunk encrypted as index i of t decrypts only at
\* position i of a download with the same key, the same iv_base and the same
\* total; a download in which some chunk fails is rejected as a whole.
C32_ChunkPositionBinding ==
  gcm.pc = "decrypted" =>
    /\ \A j \in 0..(gcm.dtotal - 1) :
         ChunkDecrypted(j) <=>
           (/\ gcm.presented[j + 1] = j
            /\ gcm.dtotal = gcm.total
            /\ gcm.dkey = gcm.key
            /\ gcm.divBase = gcm.ivBase)
    /\ gcm.result = "blob" <=> \A j \in 0..(gcm.dtotal - 1) : ChunkDecrypted(j)

\* C32 amended: the same, with iv_base compared on its bytes 0..7 only,
\* bytes 8..11 being overwritten by the chunk index on both sides.
C32_BindingUpToCounterBytes ==
  gcm.pc = "decrypted" =>
    /\ \A j \in 0..(gcm.dtotal - 1) :
         ChunkDecrypted(j) <=>
           (/\ gcm.presented[j + 1] = j
            /\ gcm.dtotal = gcm.total
            /\ gcm.dkey = gcm.key
            /\ gcm.divBase[1] = gcm.ivBase[1])
    /\ gcm.result = "blob" <=> \A j \in 0..(gcm.dtotal - 1) : ChunkDecrypted(j)

\* Two chunks swapped under the right key, iv_base and total: rejected.
C32_Witness ==
  /\ gcm.pc = "decrypted"
  /\ gcm.total = 3 /\ gcm.dtotal = 3
  /\ gcm.dkey = gcm.key /\ gcm.divBase = gcm.ivBase
  /\ gcm.presented = <<1, 0, 2>>
  /\ ~ChunkDecrypted(0) /\ ~ChunkDecrypted(1) /\ ChunkDecrypted(2)
  /\ gcm.result = "rejected"

\* The last chunk dropped (total 2 announced for a file of 3): rejected.
C32_WitnessDropped ==
  /\ gcm.pc = "decrypted"
  /\ gcm.total = 3 /\ gcm.dtotal = 2
  /\ gcm.dkey = gcm.key /\ gcm.divBase = gcm.ivBase
  /\ gcm.presented = <<0, 1>>
  /\ gcm.result = "rejected"

\* The untouched file decrypts.
C32_WitnessBlob ==
  /\ gcm.pc = "decrypted"
  /\ gcm.total = 3
  /\ gcm.divBase = gcm.ivBase
  /\ gcm.result = "blob"


\* --------------------------------------------------------------- C33
\* The reveal flow is in decryptChunkedFile and a chunk has failed.
ChunkedDownloadFailed ==
  flow.pc = "thrown" /\ "chunk" \in flow.sent

\* C33: decryptChunkedFile sends finalize only after every one of the
\* total_chunks chunks was fetched and decrypted; once a chunk fetch or a
\* chunk's authentication has failed no finalize is sent, and the file's
\* row, its tokens and its blobs stay on the server.
C33_FinalizeAfterAllChunks ==
  [][/\ ("finalize" \in flow'.sent /\ "finalize" \notin flow.sent) =>
          (flow.index = flow.total_chunks /\ "chunk" \in flow.sent)
     /\ (flow'.pc = "thrown" /\ "chunk" \in flow'.sent) =>
          /\ "finalize" \notin flow'.sent
          /\ \A tok \in DOMAIN tokens : tok \in DOMAIN tokens' /\ tokens'[tok] = tokens[tok]
          /\ \A id \in DOMAIN files : id \in DOMAIN files'
          /\ \A path \in DOMAIN blobs : path \in DOMAIN blobs'
          /\ finalized' = finalized]_vars

\* A chunk of a stored two-chunk file failed authentication after the first
\* one had decrypted: nothing was finalized and the file is still there.
C33_Witness ==
  /\ ChunkedDownloadFailed
  /\ flow.authFailed
  /\ flow.index = 1 /\ flow.total_chunks = 2
  /\ "finalize" \notin flow.sent
  /\ flow.id \in DOMAIN files
  /\ ChunkPath(flow.id, 0) \in DOMAIN blobs /\ ChunkPath(flow.id, 1) \in DOMAIN blobs

\* Every chunk decrypted and finalize was sent.
C33_WitnessFinalized ==
  /\ flow.pc = "returned"
  /\ flow.total_chunks = 2 /\ flow.index = 2
  /\ "finalize" \in flow.sent


\* --------------------------------------------------------------- C34
\* The reveal flow threw because a GCM tag did not verify, after
\* validate-passphrase had answered valid = true.
AuthFailedAfterValidation ==
  flow.pc = "thrown" /\ flow.authFailed /\ flow.valid = "yes"

\* C34: an authentication failure at the decryption step, after the
\* passphrase was validated, is never shown as an incorrect passphrase,
\* whether the secret is a note, a whole file or a chunked file.
C34_AuthFailureIsNotWrongPassphrase ==
  AuthFailedAfterValidation =>
    /\ ErrorMessage(flow.kind, flow.outcome) # IncorrectPassphrase
    /\ StateAfterError(flow.outcome) = "error"

\* C34, what the code guarantees: for notes and for whole files the failure
\* is shown as '... decryption failed unexpectedly'.
C34_UnexpectedForNotesAndWholeFiles ==
  (AuthFailedAfterValidation /\ "chunk" \notin flow.sent) =>
    /\ flow.outcome \in {"Decryption failed unexpectedly", "File decryption failed unexpectedly"}
    /\ ErrorMessage(flow.kind, flow.outcome) = <<flow.outcome>>
    /\ StateAfterError(flow.outcome) = "error"

C34_Witness ==
  /\ AuthFailedAfterValidation
  /\ flow.kind = "file" /\ "download" \in flow.sent
  /\ ErrorMessage(flow.kind, flow.outcome) = <<"File decryption failed unexpectedly">>

\* A chunk of a chunked file failed authentication and the user is told the
\* passphrase is incorrect.
C34_WitnessChunked ==
  /\ AuthFailedAfterValidation
  /\ "chunk" \in flow.sent
  /\ flow.passphrase = "correct horse"
  /\ ErrorMessage(flow.kind, flow.outcome) = IncorrectPassphrase


\* --------------------------------------------------------------- C35
\* C35: a run of cleanup_expired_notes or cleanup_expired_files deletes
\* every row with expires_at < now and keeps, unchanged, every row with
\* now <= expires_at; a run of cleanup_download_tokens deletes every token
\* that is expired or used and keeps every token that is neither.
C35_SweepRemovesExactlyTheExpired ==
  [][/\ cleanup_expired_notes =>
          \A id \in DOMAIN notes :
            /\ id \in DOMAIN notes' <=> now <= notes[id].expires_at
            /\ id \in DOMAIN notes' => notes'[id] = notes[id]
     /\ cleanup_expired_files =>
          \A id \in DOMAIN files :
            /\ id \in DOMAIN files' <=> now <= files[id].expires_at
            /\ id \in DOMAIN files' => files'[id] = files[id]
     /\ cleanup_download_tokens =>
          \A tok \in DOMAIN tokens :
            /\ tok \in DOMAIN tokens' <=>
                 (now <= tokens[tok].expires_at /\ tokens[tok].used = FALSE)
            /\ tok \in DOMAIN tokens' => tokens'[tok] = tokens[tok]]_vars

\* Of two tokens of a file that is still there, the first is gone and the
\* second, unexpired and unused, was kept.
C35_Witness ==
  /\ minted = 2
  /\ 1 \notin DOMAIN tokens
  /\ 2 \in DOMAIN tokens /\ now <= tokens[2].expires_at /\ tokens[2].used = FALSE
  /\ \E id \in DOMAIN files : tokens[2].file_id = id

\* A note that was created is gone although nobody fetched it.
C35_WitnessNote ==
  \E id \in noteUsed : id \notin DOMAIN notes /\ served[id] = 0

\* A file that was uploaded is gone although nobody downloaded it.
C35_WitnessFile ==
  \E id \in fileUsed : id \notin DOMAIN files /\ delivered[id] = 0

\* A note at the instant of its expiry, with the sweeper unable to take it.
C35_WitnessBoundary ==
  \E id \in DOMAIN notes : notes[id].expires_at = now /\ ~ENABLED cleanup_expired_notes


\* --------------------------------------------------------------- C36
\* The attempts worker c has finished: the failed ones, each followed by a
\* delay or by the throw, and the successful one.
AttemptsFinished(c) ==
  (up.attempt[c] - 1) + (IF ChunkOf(c) \in up.uploaded THEN 1 ELSE 0)

C36_WitnessRejected ==
  /\ up.pc = "thrown"
  /\ \E c \in UploadWorkers : up.attempt[c] = 4 /\ ChunkOf(c) \notin up.uploaded


\* --------------------------------------------------------------- C37
\* The file's base IV was written and its object part-00000 is stored.
IvBaseSettled(id) ==
  /\ id \in DOMAIN files
  /\ files[id].iv_base_b64u # EmptyIv
  /\ ChunkPath(id, 0) \in DOMAIN blobs

\* C37: once iv_base was written by an index-0 upload and part-00000 is
\* stored, no step of a later upload_chunk request changes the file's
\* iv_base, also not a repeated index-0 request with another iv_base_b64u.
C37_IvBaseIsWrittenOnce ==
  [][\A id \in FileIds :
       (IvBaseSettled(id) /\ id \in DOMAIN files') =>
         files'[id].iv_base_b64u = files[id].iv_base_b64u]_vars

\* C37, what the code guarantees: iv_base is changed by nothing but the
\* update step of a request for index 0 that carries an iv_base_b64u.
C37_OnlyIndexZeroWritesIvBase ==
  [][\A id \in FileIds :
       (/\ id \in DOMAIN files /\ id \in DOMAIN files'
        /\ files'[id].iv_base_b64u # files[id].iv_base_b64u) =>
         \E c \in Callers :
           /\ ureq[c].pc = "update" /\ ureq[c].id = id
           /\ ureq[c].index = 0 /\ ureq[c].iv = files'[id].iv_base_b64u]_vars

\* A repeated index-0 request was answered 'Chunk already exists' for a
\* stored part-00000, and the row's iv_base is the one it carried.
C37_WitnessOverwritten ==
  \E id \in DOMAIN files, c, d \in Callers :
    /\ c # d
    /\ ureq[c].pc = "done" /\ ureq[c].status = 200 /\ ureq[c].cause # "exists"
    /\ ureq[c].id = id /\ ureq[c].index = 0
    /\ ureq[d].pc = "done" /\ ureq[d].status = 200 /\ ureq[d].cause = "exists"
    /\ ureq[d].id = id /\ ureq[d].index = 0
    /\ files[id].iv_base_b64u = "iv2"


\* --------------------------------------------------------------- C38
\* The entries of an address in the window that ends now.
AdmittedInWindow(ip) == Len(EntriesSince(rate_limits[ip], DateNow(now)))

\* C38: whatever the interleaving of the rateLimit calls of one address, the
\* admitted requests with an entry in the window are never more than the
\* limit.
C38_LimitHoldsUnderConcurrency ==
  \A ip \in Ips : AdmittedInWindow(ip) <= CreateNoteMaxRequests

\* C38, what the code guarantees: a call that is admitted had counted fewer
\* than maxRequests entries at its select, so the limit is exceeded by at
\* most the number of calls under way at the same time, less one.
C38_ExcessBoundedByOverlap ==
  /\ \A ip \in Ips : AdmittedInWindow(ip) <= CreateNoteMaxRequests + Cardinality(ConcCallers) - 1
  /\ \A c \in ConcCallers :
       rcall[c].pc = "done" => (rcall[c].success <=> rcall[c].count < CreateNoteMaxRequests)

\* Two calls that both counted one entry below the limit and were both
\* admitted.
C38_WitnessBothAdmitted ==
  /\ \A c \in ConcCallers :
       /\ rcall[c].pc = "done" /\ rcall[c].success
       /\ rcall[c].count = CreateNoteMaxRequests - 1
       /\ rcall[c].at = DateNow(now)
  /\ AdmittedInWindow("ip1") = CreateNoteMaxRequests + 1

\* A call rejected at the limit.
C38_WitnessRejected ==
  \E c \in ConcCallers : rcall[c].pc = "done" /\ ~rcall[c].success


\* --------------------------------------------------------------- C39
\* The form has posted a chunk of a file that init-chunked accepted.
ChunkPosted == cform.pc = "chunk"

\* C39: for every file size accepted for chunked mode (above 100 MiB, up to
\* and including 500 MiB) every encrypted chunk body is at most 4 MiB and no
\* chunk upload is answered 413.
C39_ChunkBodyWithinLimit ==
  ChunkPosted => (cform.bodySize <= 4 * 1024 * 1024 /\ cform.chunkStatus # 413)

\* C39, what the code guarantees: below 500 MiB the body is at most
\* 3 MiB + 16 bytes and is not refused for its size.
C39_WithinLimitBelowMaxSize ==
  (ChunkPosted /\ cform.size < 500 * 1024 * 1024) =>
    (cform.bodySize <= (3 * 1024 * 1024) + 16 /\ cform.chunkStatus # 413)

C39_Witness ==
  /\ ChunkPosted
  /\ cform.size = maxSize - 1
  /\ cform.index = 0
  /\ cform.bodySize = (3 * 1024 * 1024) + 16
  /\ cform.chunkStatus = 200

\* A chunk of a file of exactly 500 MiB: 4 MiB + 16 bytes, answered 413.
C39_WitnessTooLarge ==
  /\ ChunkPosted
  /\ cform.size = maxSize
  /\ cform.bodySize = (4 * 1024 * 1024) + 16
  /\ cform.chunkStatus = 413

\* --------------------------------------------------------------- C40
\* The form has sent init-chunked for a large file and was not rate limited.
InitSent == cform.pc \in {"failed", "uploading", "chunk"} /\ cform.initStatus # 429

\* C40: in both share modes the init request carries the chunk_bytes and
\* the total_chunks that encryptAndUploadInChunks uses for the file, so it
\* is accepted, and no chunk upload is answered 400 for its total.
C40_InitAgreesWithUpload ==
  /\ InitSent =>
       /\ cform.chunk_bytes = getOptimalChunkSize(cform.size)
       /\ cform.total_chunks = Ceil(cform.size, getOptimalChunkSize(cform.size))
       /\ cform.initStatus = 200
  /\ ChunkPosted => cform.chunkStatus # 400

\* C40, what the code guarantees: in passphrase mode it is so.
C40_PassphraseModeAgrees ==
  /\ (InitSent /\ cform.mode = "passphrase") =>
       /\ cform.chunk_bytes = getOptimalChunkSize(cform.size)
       /\ cform.total_chunks = Ceil(cform.size, getOptimalChunkSize(cform.size))
       /\ cform.initStatus = 200
       /\ cform.chunk_bytes = cform.chunkSize /\ cform.total_chunks = cform.totalChunks
  /\ ChunkPosted => cform.chunkStatus # 400

C40_Witness ==
  /\ ChunkPosted
  /\ cform.mode = "passphrase"
  /\ cform.size = (150 * MB) + 1
  /\ cform.total_chunks = 51 /\ cform.index = 50
  /\ cform.chunkStatus = 200

\* A link-mode upload of a large file: no chunk_bytes, total_chunks counted
\* in 1 MiB chunks, and init-chunked answers 400.
C40_WitnessLinkMode ==
  /\ InitSent
  /\ cform.mode = "link"
  /\ cform.size = 150 * MB
  /\ cform.chunk_bytes = NoField /\ cform.total_chunks = 150
  /\ cform.initStatus = 400 /\ cform.pc = "failed"

====
